---- MODULE Spec2Model ----
(***************************************************************************)
(* Model of the retrieval-augmented chat backend:                          *)
(*   - the /conversation handler (main.py conversation_handler_dev) and    *)
(*     its stream generator generate_response_stream, with the two         *)
(*     background threads posting to result_queue;                         *)
(*   - the ingestion consumer (subscriber.py message_processing_callback)  *)
(*     and the VectorStore upsert / delete operations it calls.            *)
(*                                                                         *)
(* Strings are sequences of tokens.  A token stands for a fixed piece of   *)
(* text (one character, or one word whose characters all behave alike      *)
(* under strip / lower / clean_text / the regular expressions), so the     *)
(* string functions are computed on the text and not assumed.              *)
(***************************************************************************)
EXTENDS Integers, Sequences, FiniteSets, TLC

(* ---------------------------------------------------------------- bounds *)
MaxMsgLen == 3      \* tokens in a user message
MaxHistory == 1     \* turns in the request's history
MaxChunks == 1      \* text chunks the Completion Service streams
MaxDeliveries == 2  \* Pub/Sub deliveries to the consumer
MaxFailures == 2    \* upload or import calls that fail before they succeed
MaxLinks == 2       \* links on one crawled page

(* ------------------------------------------------------ program constants *)
MIN_TRIMMED_LEN == 3
MAX_RAW_LEN == 2048
QUEUE_GET_TIMEOUT == 20

(* ---------------------------------------------------------------- tokens *)
\* What a user can type: the lower-case letters ig and nore, the upper-case
\* letters IG, a space, the two angle brackets (punctuation), a six-digit
\* number, the word null and a run of 2048 letters x.
UserAlphabet == {"ig", "IG", "nore", " ", "<", ">", "123456", "null", "x2048"}

INVALID_INPUT == "UNANSWERABLE_QUERY_DUE_TO_INVALID_INPUT"
PROMPT_FILTER == "UNANSWERABLE_QUERY_DUE_TO_PROMPT_FILTER"

\* len() of the text a token stands for
TokLen(t) ==
    CASE t = "123456" -> 6
      [] t \in {"ig", "IG"} -> 2
      [] t \in {"null", "nore"} -> 4
      [] t = "x2048" -> 2048
      [] t \in {INVALID_INPUT, PROMPT_FILTER,
                "unanswerable_query_due_to_invalid_input",
                "unanswerable_query_due_to_prompt_filter"} -> 39
      [] t \in {"unanswerablequeryduetoinvalidinput",
                "unanswerablequeryduetopromptfilter"} -> 34
      [] OTHER -> 1

RECURSIVE StrLen(_)
StrLen(s) == IF s = <<>> THEN 0 ELSE TokLen(Head(s)) + StrLen(Tail(s))

\* str.strip(): leading and trailing whitespace removed
RECURSIVE LStrip(_)
LStrip(s) == IF s # <<>> /\ Head(s) = " " THEN LStrip(Tail(s)) ELSE s

RECURSIVE RStrip(_)
RStrip(s) ==
    IF s # <<>> /\ s[Len(s)] = " " THEN RStrip(SubSeq(s, 1, Len(s) - 1)) ELSE s

Strip(s) == RStrip(LStrip(s))

\* str.lower()
LowerTok(t) ==
    CASE t = "IG" -> "ig"
      [] t = INVALID_INPUT -> "unanswerable_query_due_to_invalid_input"
      [] t = PROMPT_FILTER -> "unanswerable_query_due_to_prompt_filter"
      [] OTHER -> t

Lower(s) == [i \in 1..Len(s) |-> LowerTok(s[i])]

\* utils.clean_text: every character outside [a-zA-Z0-9\s.?-] is removed
CleanTok(t) ==
    CASE t \in {"<", ">"} -> <<>>
      [] t = "unanswerable_query_due_to_invalid_input" ->
             <<"unanswerablequeryduetoinvalidinput">>
      [] t = "unanswerable_query_due_to_prompt_filter" ->
             <<"unanswerablequeryduetopromptfilter">>
      [] t = INVALID_INPUT -> <<"UNANSWERABLEQUERYDUETOINVALIDINPUT">>
      [] t = PROMPT_FILTER -> <<"UNANSWERABLEQUERYDUETOPROMPTFILTER">>
      [] OTHER -> <<t>>

RECURSIVE clean_text(_)
clean_text(s) ==
    IF s = <<>> THEN <<>> ELSE CleanTok(Head(s)) \o clean_text(Tail(s))

\* `needle in hay` for strings
Contains(hay, needle) ==
    \E i \in 0..(Len(hay) - Len(needle)) : SubSeq(hay, i + 1, i + Len(needle)) = needle

\* config.PROMPT_INJECTION_KEYWORDS: the fixed keyword list
PROMPT_INJECTION_KEYWORDS == {<<"ig", "nore">>}

\* re.search(r"[a-zA-Z0-9\u13A0-\u13FF\uAB70-\uABBF]", message)
HasAlnum(s) == \E i \in 1..Len(s) : s[i] \notin {" ", "<", ">"}

\* re.compile(r"<[^>]+>").search(message)
HasHtmlTag(s) ==
    \E i \in 1..Len(s) : \E j \in (i + 2)..Len(s) :
        /\ s[i] = "<"
        /\ s[j] = ">"
        /\ \A k \in (i + 1)..(j - 1) : s[k] # ">"

(* ------------------------------------------------------------ pii_check *)
\* \w: the token's characters are word characters
IsWordTok(t) == t \notin {" ", "<", ">"}

\* a maximal run of word characters s[i..j] (\b on both sides)
RunStart(s, i) == IsWordTok(s[i]) /\ (i = 1 \/ ~IsWordTok(s[i - 1]))

RunEnd(s, i) ==
    CHOOSE j \in i..Len(s) :
        /\ \A k \in i..j : IsWordTok(s[k])
        /\ (j = Len(s) \/ ~IsWordTok(s[j + 1]))

\* \b\d{6}\b (cherokee_nation_id) for one number; phone, credit_card or
\* aadhaar_india for a longer run of digits
DigitRun(s, i, j) == \A k \in i..j : s[k] = "123456"

\* iban: \b[A-Z]{2}\d{2}[A-Z0-9]{11,30}\b
IbanRun(s, i, j) ==
    /\ j - i >= 1
    /\ s[i] = "IG" /\ s[i + 1] = "123456"
    /\ \A k \in (i + 2)..j : s[k] \in {"IG", "123456"}
    /\ 4 + StrLen(SubSeq(s, i + 2, j)) \in 11..30

PiiRun(s, i, j) == DigitRun(s, i, j) \/ IbanRun(s, i, j)

\* the label the first matching pattern of PII_PATTERNS leaves
MaskLabel(s, i, j) ==
    IF DigitRun(s, i, j)
    THEN (IF j = i THEN "[MASKED_CHEROKEE_NATION_ID]" ELSE "[MASKED_PHONE]")
    ELSE "[MASKED_IBAN]"

PiiSearch(s) ==
    \E i \in 1..Len(s) : RunStart(s, i) /\ PiiRun(s, i, RunEnd(s, i))

RECURSIVE MaskFrom(_, _)
MaskFrom(s, i) ==
    IF i > Len(s) THEN <<>>
    ELSE IF RunStart(s, i) /\ PiiRun(s, i, RunEnd(s, i))
         THEN <<MaskLabel(s, i, RunEnd(s, i))>> \o MaskFrom(s, RunEnd(s, i) + 1)
         ELSE <<s[i]>> \o MaskFrom(s, i + 1)

\* pii_check.detect_and_mask_pii: <<pii_detected, masked_text>>
detect_and_mask_pii(text) ==
    IF text = <<>> THEN <<FALSE, <<>>>>
    ELSE IF ~PiiSearch(text) THEN <<FALSE, text>>
    ELSE <<TRUE, MaskFrom(text, 1)>>

(* ------------------------------------------- conversation_handler_dev *)
\* faulty variant of LengthCheck: len(message) without strip()
LengthCheckNoStrip(m) ==
    IF StrLen(m) < MIN_TRIMMED_LEN \/ StrLen(m) > MAX_RAW_LEN
    THEN <<INVALID_INPUT>> ELSE m

\* main.py 271-273
LengthCheck(m) ==
    IF StrLen(Strip(m)) < MIN_TRIMMED_LEN \/ StrLen(m) > MAX_RAW_LEN
    THEN <<INVALID_INPUT>> ELSE m

\* main.py 275-279
AlnumCheck(m) == IF ~HasAlnum(m) THEN <<INVALID_INPUT>> ELSE m

\* faulty variant of KeywordCheck: the message is not lower-cased
KeywordCheckNoLower(m) ==
    IF \/ \E keyword \in PROMPT_INJECTION_KEYWORDS :
              Contains(clean_text(m), keyword)
       \/ m = <<"null">>
    THEN <<PROMPT_FILTER>> ELSE m

\* main.py 281-287
KeywordCheck(m) ==
    IF \/ \E keyword \in PROMPT_INJECTION_KEYWORDS :
              Contains(clean_text(Lower(m)), keyword)
       \/ m = <<"null">>
    THEN <<PROMPT_FILTER>> ELSE m

\* the message after the three rewrites, in the order the handler applies them
Rewrite(m) == KeywordCheck(AlnumCheck(LengthCheck(m)))

(* ------------------------------------------------------- ingestion state *)
VARIABLES
    ALLOWED_URL_PREFIXES,   \* subscriber.py 26-27, fixed at process start
    rag_files,              \* the RAG corpus: the files rag.list_files yields
    gcs_blobs,              \* the bucket: blob name -> content type
    next_file,              \* the resource name rag.import_files gives next
    delivery,               \* the Pub/Sub message the callback is handling
    ipc,                    \* where the callback stands
    content,                \* what the fetch / scrape step returned
    ack_state,              \* "none", "ack" or "nack" for this delivery
    deliveries,             \* messages delivered so far
    faults,                 \* the calls that raised during this callback
    log                     \* per finished callback: task, outcome, faults

ingVars == <<ALLOWED_URL_PREFIXES, rag_files, gcs_blobs, next_file, delivery,
             ipc, content, ack_state, deliveries, faults, log>>

(* --------------------------------------------------------- webhook state *)
VARIABLES
    wh_request,             \* the JSON body of the POST /update-embedding
    wh_response,            \* the status the handler returned, 0 before it
    wh_body,                \* the response body: "none", "json" or "html"
    published               \* the messages the handler published to the topic

webVars == <<wh_request, wh_response, wh_body, published>>


(* ------------------------------------------------------ second callback *)
VARIABLE
    peer                    \* a second run of the callback: where it stands

(* ------------------------------------------------------ crawler state *)
VARIABLE
    crawl                   \* crawl_domain: its locals and the calls it made

(* ------------------------------------------------------ second request *)
VARIABLE
    other                   \* another /conversation request being streamed

(* ------------------------------------------------------------ the state *)
VARIABLES
    payload_message,    \* payload.get("message"), as received
    history,            \* payload.get("history", [])
    message,            \* the handler's local `message`, rewritten in place
    pii_found,
    masked_message,
    response,           \* "none", "400" or "stream": what the handler returned
    pc,                 \* where the handler / the stream generator stands
    events,             \* the events the generator has yielded, in order
    full_response_text,
    summary,
    source_urls,        \* <<>> stands for None until the sources chunk arrives
    processed_history,
    summary_calls,      \* invocations of _generate_history_summary_sync
    completion_calls,   \* arguments of each generate_primary_response call
    threads,            \* the local list `threads`
    thread_state,       \* per background thread: "new", "running", "posted"
    result_queue,
    reads,              \* result_queue.get calls made so far
    waited,             \* time spent blocked in result_queue.get
    raised,             \* <<>>, or <<step, str(e)>> of the exception caught
    found_contacts,     \* what the contact thread extracted
    title_calls,        \* outcome of each completion call of Title Enrichment
    title_map,          \* the mapping Title Enrichment returned
    follow_up_reply     \* what the follow-up thread's completion call gave

convVars == <<payload_message, history, message, pii_found, masked_message,
              response, pc, events, full_response_text, summary, source_urls,
              processed_history, summary_calls, completion_calls, threads,
              thread_state, result_queue, reads, waited, raised,
              found_contacts, title_calls, title_map, follow_up_reply>>

(* ------------------------------------------------------ stream payloads *)
HTML_MSG == <<"It looks like your message had some special symbols or formatting I couldn't interpret. Please try again using simple, plain text.">>
PRIVACY_MSG == <<"To protect your privacy, we cannot process requests that appear to contain personal or sensitive information. Please rephrase your question without including any personal details and try again.">>
ERROR_MSG == <<"Cherokee Nation Chat is not available right now, please try again later.">>

\* str(e) of the exceptions a step can raise
Exceptions == {<<"ServiceUnavailable: 503 upstream">>}

\* data: {json} with an answer_chunk, with or without "error": true
TextDelta(text) == [kind |-> "message", data |-> text, error |-> FALSE]
ErrorDelta(text) == [kind |-> "message", data |-> text, error |-> TRUE]
Named(name, data) == [kind |-> name, data |-> data, error |-> FALSE]
DoneEvent == [kind |-> "done", data |-> <<>>, error |-> FALSE]

\* a history of h turns, user and model alternating
History(h) ==
    [i \in 1..h |-> [role |-> IF i % 2 = 1 THEN "user" ELSE "model",
                     text |-> <<"turn">>]]

SummaryTurn(text) ==
    <<[role |-> "user",
       text |-> <<"PREVIOUS CONVERSATION SUMMARY: ">> \o text]>>

\* the source lists the Completion Service can yield
SourceLists ==
    {<<>>, <<"https://nation.example/page">>,
     <<"https://nation.example/s4", "https://nation.example/s1",
       "https://nation.example/s3", "https://nation.example/s2">>}

\* every token string a client can send, up to n tokens
RECURSIVE Strings(_)
Strings(n) ==
    IF n = 0 THEN {<<>>}
    ELSE LET shorter == Strings(n - 1)
         IN  shorter \cup {Append(s, t) : s \in {x \in shorter : Len(x) = n - 1},
                                          t \in UserAlphabet}

\* payload.get("message") of a body that has no "message" key: None
NoMessage == <<"(none)">>

\* one message for each way through the handler: plain; too short; an
\* injection keyword; a six-digit id; an HTML tag; an HTML tag around an id;
\* the empty message; no message
SampleMessages ==
    { <<"nore", " ", "ig">>, <<"ig">>, <<"ig", "nore">>, <<"123456">>,
      <<"<", "ig", ">">>, <<"<", "123456", ">">>, <<>>, NoMessage }

ConvInit(messages, lengths) ==
    /\ payload_message \in messages
    /\ history \in {History(h) : h \in lengths}
    /\ message = payload_message
    /\ pii_found = FALSE
    /\ masked_message = <<>>
    /\ response = "none"
    /\ pc = "request"
    /\ events = <<>>
    /\ full_response_text = <<>>
    /\ summary = <<>>
    /\ source_urls = <<>>
    /\ processed_history = history
    /\ summary_calls = 0
    /\ completion_calls = <<>>
    /\ threads = <<>>
    /\ thread_state = [t \in {"contact", "follow_up"} |-> "new"]
    /\ result_queue = <<>>
    /\ reads = 0
    /\ waited = 0
    /\ raised = <<>>
    /\ found_contacts = [state |-> "none", urls |-> <<>>, emails |-> <<>>,
                         phones |-> <<>>]
    /\ title_calls = <<>>
    /\ title_map = <<>>
    /\ follow_up_reply = "none"

(* ----------------------------------------------- conversation_handler_dev *)
\* main.py 257: `not message`, for None and for ""
NotMessage(m) == m = NoMessage \/ m = <<>>

\* faulty variant of Validate: only a missing message is rejected
\* (`if message is None`)
ValidateOnlyNone ==
    /\ pc = "request"
    /\ IF payload_message = NoMessage
       THEN /\ response' = "400"
            /\ pc' = "responded"
            /\ UNCHANGED <<message, pii_found, masked_message>>
       ELSE /\ message' = Rewrite(payload_message)
            /\ pii_found' = detect_and_mask_pii(message')[1]
            /\ masked_message' = detect_and_mask_pii(message')[2]
            /\ response' = "stream"
            /\ pc' = "try"
    /\ UNCHANGED <<payload_message, history, events, full_response_text, summary,
                   source_urls, processed_history, summary_calls,
                   completion_calls, threads, thread_state, result_queue, reads,
                   waited, raised, found_contacts, title_calls, title_map,
                   follow_up_reply,
                   ingVars, webVars, peer, crawl, other>>

\* main.py 253-289 and 386: the request handler up to returning the Response
Validate ==
    /\ pc = "request"
    /\ IF NotMessage(payload_message)
       THEN /\ response' = "400"
            /\ pc' = "responded"
            /\ UNCHANGED <<message, pii_found, masked_message>>
       ELSE /\ message' = Rewrite(payload_message)
            /\ pii_found' = detect_and_mask_pii(message')[1]
            /\ masked_message' = detect_and_mask_pii(message')[2]
            /\ response' = "stream"
            /\ pc' = "try"
    /\ UNCHANGED <<payload_message, history, events, full_response_text, summary,
                   source_urls, processed_history, summary_calls,
                   completion_calls, threads, thread_state, result_queue, reads,
                   waited, raised, found_contacts, title_calls, title_map,
                   follow_up_reply,
                   ingVars, webVars, peer, crawl, other>>

(* ----------------------------------------------- generate_response_stream *)
\* faulty variant of ExceptYield: str(e) is sent to the client
ExceptYieldsExceptionText(e) == ErrorDelta(e)

\* main.py 378-381: the except clause yields the fixed message
ExceptYield(e) == ErrorDelta(ERROR_MSG)

\* faulty variant of Raise: no finally clause, the generator just ends
RaiseSkipsFinally(step, e) ==
    /\ events' = Append(events, ExceptYield(e))
    /\ raised' = <<step, e>>
    /\ pc' = "done"

\* main.py 378-384: `step` raised e; the except clause yields, and the
\* finally clause is next
Raise(step, e) ==
    /\ events' = Append(events, ExceptYield(e))
    /\ raised' = <<step, e>>
    /\ pc' = "finally"

\* faulty variant of HtmlBranch: the refusal is yielded and the handler goes
\* on to the Completion Service
HtmlBranchGoesOn ==
    /\ pc = "try"
    /\ HasHtmlTag(message)
    /\ events' = Append(events, ErrorDelta(HTML_MSG))
    /\ pc' = "generate"
    /\ UNCHANGED <<payload_message, history, message, pii_found, masked_message,
                   response, full_response_text, summary, source_urls,
                   processed_history, summary_calls, completion_calls, threads,
                   thread_state, result_queue, reads, waited, raised,
                   found_contacts, title_calls, title_map, follow_up_reply,
                   ingVars, webVars, peer, crawl, other>>

\* main.py 297-304
HtmlBranch ==
    /\ pc = "try"
    /\ HasHtmlTag(message)
    /\ events' = Append(events, ErrorDelta(HTML_MSG))
    /\ pc' = "finally"
    /\ UNCHANGED <<payload_message, history, message, pii_found, masked_message,
                   response, full_response_text, summary, source_urls,
                   processed_history, summary_calls, completion_calls, threads,
                   thread_state, result_queue, reads, waited, raised,
                   found_contacts, title_calls, title_map, follow_up_reply,
                   ingVars, webVars, peer, crawl, other>>

\* faulty variant of PiiBranch: the refusal is yielded and the handler goes
\* on to the Completion Service
PiiBranchGoesOn ==
    /\ pc = "try"
    /\ ~HasHtmlTag(message)
    /\ pii_found
    /\ full_response_text' = PRIVACY_MSG
    /\ events' = Append(events, ErrorDelta(full_response_text'))
    /\ pc' = "generate"
    /\ UNCHANGED <<payload_message, history, message, pii_found, masked_message,
                   response, summary, source_urls, processed_history,
                   summary_calls, completion_calls, threads, thread_state,
                   result_queue, reads, waited, raised, found_contacts,
                   title_calls, title_map, follow_up_reply,
                   ingVars, webVars, peer, crawl, other>>

\* main.py 306-314
PiiBranch ==
    /\ pc = "try"
    /\ ~HasHtmlTag(message)
    /\ pii_found
    /\ full_response_text' = PRIVACY_MSG
    /\ events' = Append(events, ErrorDelta(full_response_text'))
    /\ pc' = "finally"
    /\ UNCHANGED <<payload_message, history, message, pii_found, masked_message,
                   response, summary, source_urls, processed_history,
                   summary_calls, completion_calls, threads, thread_state,
                   result_queue, reads, waited, raised, found_contacts,
                   title_calls, title_map, follow_up_reply,
                   ingVars, webVars, peer, crawl, other>>

\* main.py 316-334: the History Summarizer, called when history is non-empty.
\* It returns a summary, returns "" (services.py 162), or raises (services.py
\* 158-162 has no handler of its own).
Summarize ==
    /\ pc = "try"
    /\ ~HasHtmlTag(message)
    /\ ~pii_found
    /\ IF Len(history) = 0
       THEN /\ pc' = "generate"
            /\ UNCHANGED <<events, raised, summary, processed_history,
                           summary_calls>>
       ELSE /\ summary_calls' = summary_calls + 1
            /\ \/ /\ summary' = <<"summary">>
                  /\ processed_history' = SummaryTurn(summary')
                  /\ pc' = "generate"
                  /\ UNCHANGED <<events, raised>>
               \/ /\ pc' = "generate"
                  /\ UNCHANGED <<events, raised, summary, processed_history>>
               \/ /\ \E e \in Exceptions : Raise("summarize", e)
                  /\ UNCHANGED <<summary, processed_history>>
    /\ UNCHANGED <<payload_message, history, message, pii_found, masked_message,
                   response, full_response_text, source_urls, completion_calls,
                   threads, thread_state, result_queue, reads, waited,
                   found_contacts, title_calls, title_map, follow_up_reply,
                   ingVars, webVars, peer, crawl, other>>

\* faulty variant of InvokeCompletion: the background threads are started
\* before the Completion Service output is read
InvokeCompletionStartsThreads ==
    /\ pc = "generate"
    /\ completion_calls' =
           Append(completion_calls,
                  [message |-> masked_message, history |-> processed_history])
    /\ threads' = <<"contact", "follow_up">>
    /\ thread_state' = [t \in {"contact", "follow_up"} |-> "running"]
    /\ pc' = "iterate"
    /\ UNCHANGED <<payload_message, history, message, pii_found, masked_message,
                   response, events, full_response_text, summary, source_urls,
                   processed_history, summary_calls, result_queue, reads, waited,
                   raised, found_contacts, title_calls, title_map,
                   follow_up_reply,
                   ingVars, webVars, peer, crawl, other>>

\* faulty variant of InvokeCompletion: the message as received is handed on
InvokeCompletionAsReceived ==
    /\ pc = "generate"
    /\ completion_calls' =
           Append(completion_calls,
                  [message |-> payload_message, history |-> processed_history])
    /\ pc' = "iterate"
    /\ UNCHANGED <<payload_message, history, message, pii_found, masked_message,
                   response, events, full_response_text, summary, source_urls,
                   processed_history, summary_calls, threads, thread_state,
                   result_queue, reads, waited, raised, found_contacts,
                   title_calls, title_map, follow_up_reply,
                   ingVars, webVars, peer, crawl, other>>

\* main.py 336-338: the Completion Service is handed (masked_message,
\* processed_history)
InvokeCompletion ==
    /\ pc = "generate"
    /\ completion_calls' =
           Append(completion_calls,
                  [message |-> masked_message, history |-> processed_history])
    /\ pc' = "iterate"
    /\ UNCHANGED <<payload_message, history, message, pii_found, masked_message,
                   response, events, full_response_text, summary, source_urls,
                   processed_history, summary_calls, threads, thread_state,
                   result_queue, reads, waited, raised, found_contacts,
                   title_calls, title_map, follow_up_reply,
                   ingVars, webVars, peer, crawl, other>>

\* the text chunks relayed so far
TextCount == Cardinality({i \in 1..Len(events) :
                             events[i].kind = "message" /\ ~events[i].error})

\* faulty variant of CompletionText: the sources chunk is yielded inside the
\* loop over the chunks, once per chunk
CompletionTextWithSources ==
    /\ pc = "iterate"
    /\ TextCount < MaxChunks
    /\ \E data \in {<<"chunk">>} :
           /\ full_response_text' = full_response_text \o data
           /\ events' = events \o <<TextDelta(data), Named("sources", <<>>)>>
    /\ UNCHANGED <<payload_message, history, message, pii_found, masked_message,
                   response, pc, summary, source_urls, processed_history,
                   summary_calls, completion_calls, threads, thread_state,
                   result_queue, reads, waited, raised, found_contacts,
                   title_calls, title_map, follow_up_reply,
                   ingVars, webVars, peer, crawl, other>>

\* main.py 340-343 with services.py 112-123: one text chunk
CompletionText ==
    /\ pc = "iterate"
    /\ TextCount < MaxChunks
    /\ \E data \in {<<"chunk">>} :
           /\ full_response_text' = full_response_text \o data
           /\ events' = Append(events, TextDelta(data))
    /\ UNCHANGED <<payload_message, history, message, pii_found, masked_message,
                   response, pc, summary, source_urls, processed_history,
                   summary_calls, completion_calls, threads, thread_state,
                   result_queue, reads, waited, raised, found_contacts,
                   title_calls, title_map, follow_up_reply,
                   ingVars, webVars, peer, crawl, other>>

\* services.py 107, 112: the model call or the iteration of its stream raises
CompletionRaise ==
    /\ pc = "iterate"
    /\ \E e \in Exceptions : Raise("completion", e)
    /\ UNCHANGED <<payload_message, history, message, pii_found, masked_message,
                   response, full_response_text, summary, source_urls,
                   processed_history, summary_calls, completion_calls, threads,
                   thread_state, result_queue, reads, waited, found_contacts,
                   title_calls, title_map, follow_up_reply,
                   ingVars, webVars, peer, crawl, other>>

\* main.py 344-346 with services.py 140: the sources chunk ends the sequence
CompletionSources ==
    /\ pc = "iterate"
    /\ \E data \in SourceLists :
           /\ source_urls' = data
           /\ events' = Append(events, Named("sources", data))
    /\ pc' = "launch"
    /\ UNCHANGED <<payload_message, history, message, pii_found, masked_message,
                   response, full_response_text, summary, processed_history,
                   summary_calls, completion_calls, threads, thread_state,
                   result_queue, reads, waited, raised, found_contacts,
                   title_calls, title_map, follow_up_reply,
                   ingVars, webVars, peer, crawl, other>>

\* main.py 348-367: both threads are started
Launch ==
    /\ pc = "launch"
    /\ threads' = <<"contact", "follow_up">>
    /\ thread_state' = [t \in {"contact", "follow_up"} |-> "running"]
    /\ pc' = "collect"
    /\ UNCHANGED <<payload_message, history, message, pii_found, masked_message,
                   response, events, full_response_text, summary, source_urls,
                   processed_history, summary_calls, completion_calls,
                   result_queue, reads, waited, raised, found_contacts,
                   title_calls, title_map, follow_up_reply,
                   ingVars, webVars, peer, crawl, other>>

\* main.py 358, 366: Thread.start() raises, for the first or the second thread
LaunchRaise ==
    /\ pc = "launch"
    /\ \E started \in {<<>>, <<"contact">>} :
           /\ threads' = started
           /\ thread_state' =
                  [t \in {"contact", "follow_up"} |->
                      IF \E i \in 1..Len(started) : started[i] = t
                      THEN "running" ELSE "new"]
    /\ \E e \in Exceptions : Raise("launch", e)
    /\ UNCHANGED <<payload_message, history, message, pii_found, masked_message,
                   response, full_response_text, summary, source_urls,
                   processed_history, summary_calls, completion_calls,
                   result_queue, reads, waited, found_contacts, title_calls,
                   title_map, follow_up_reply,
                   ingVars, webVars, peer, crawl, other>>

(* ------------------------------------------------------ background tasks *)
\* contacts are strings, written as their pieces
Phone1 == <<"918-453-5000">>
EmailPlain == <<"ANN", "@", "nation.example">>
EmailDotted == <<"john", ".", "doe", "@", "nation.example">>
TextUrl == <<"https://nation.example/services">>

\* every contact of the model in the order sorted() gives (code points)
Ordered ==
    <<Phone1, <<"918-453-5001">>, <<"918-453-5002">>, <<"918-453-5003">>,
      <<"918-453-5004">>, EmailPlain, <<"b", "@", "nation.example">>,
      <<"c", "@", "nation.example">>, <<"d", "@", "nation.example">>,
      <<"https://nation.example/page">>, <<"https://nation.example/s1">>,
      <<"https://nation.example/s2">>, <<"https://nation.example/s3">>,
      <<"https://nation.example/s4">>, TextUrl,
      <<"https://nation.example/u1">>, <<"https://nation.example/u2">>,
      <<"https://nation.example/u3">>, <<"https://nation.example/u4">>,
      EmailDotted>>

\* sorted(list(s))
Sorted(s) == SelectSeq(Ordered, LAMBDA c : c \in s)

\* seq[:n]
Take(seq, n) == SubSeq(seq, 1, IF Len(seq) < n THEN Len(seq) ELSE n)

Elems(seq) == {seq[i] : i \in 1..Len(seq)}

\* the regex matches in a response text, per kind (utils.py 66-68): none;
\* a URL and two emails; a phone number; five of each kind; the last one
\* stands for a text the extraction raises on
TextContacts ==
    { [state |-> "found", urls |-> {}, emails |-> {}, phones |-> {}],
      [state |-> "found", urls |-> {TextUrl}, emails |-> {EmailPlain, EmailDotted},
       phones |-> {}],
      [state |-> "found", urls |-> {}, emails |-> {}, phones |-> {Phone1}],
      [state |-> "found",
       urls |-> {Ordered[i] : i \in 15..19},
       emails |-> {Ordered[i] : i \in {6, 7, 8, 9, 20}},
       phones |-> {Ordered[i] : i \in 1..5}],
      [state |-> "raised", urls |-> {}, emails |-> {}, phones |-> {}] }

\* faulty variant of find_contacts_with_regex: the source list is cut to four
\* and the matches are not cut
find_contacts_uncapped(matches, sources) ==
    [state |-> matches.state,
     urls |-> IF sources # <<>>
              THEN Take([i \in 1..Len(sources) |-> <<sources[i]>>], 4)
              ELSE Sorted(matches.urls),
     emails |-> Sorted(matches.emails),
     phones |-> Sorted(matches.phones)]

\* utils.py 80-84: the extracted bundle
find_contacts_with_regex(matches, sources) ==
    [state |-> matches.state,
     urls |-> IF sources # <<>>
              THEN Take([i \in 1..Len(sources) |-> <<sources[i]>>], 3)
              ELSE Take(Sorted(matches.urls), 4),
     emails |-> Take(Sorted(matches.emails), 4),
     phones |-> Take(Sorted(matches.phones), 4)]

\* services.py 172-176: all_contacts_list
AllContacts(found) ==
    Sorted(Elems(found.urls) \cup Elems(found.emails) \cup Elems(found.phones))

\* str.title() and str.replace('.', ' ') on the pieces of a local part
Title(s) ==
    [i \in 1..Len(s) |-> CASE s[i] = "john" -> "John"
                            [] s[i] = "doe" -> "Doe"
                            [] s[i] = "ANN" -> "Ann"
                            [] OTHER -> s[i]]

ReplaceDots(s) == [i \in 1..Len(s) |-> IF s[i] = "." THEN " " ELSE s[i]]

\* email.split('@')[0]
LocalPart(email) ==
    SubSeq(email, 1, (CHOOSE i \in 1..Len(email) :
                         email[i] = "@" /\ \A k \in 1..(i - 1) : email[k] # "@") - 1)

\* services.py 189: stop_after_attempt(3)
STOP_AFTER_ATTEMPT == 3

\* faulty variant of Retries: every exception is retried
RetriesAnyError(outcome) == outcome # "ok"

\* services.py 187: retry_if_exception_type(ResourceExhausted)
Retries(outcome) == outcome = "ResourceExhausted"

\* services.py 186-201: generate_with_retry under tenacity, from attempt n on;
\* outcomes[k] is what the k-th call does. The calls made, in order: a call
\* is repeated while it fails with a retried exception and attempts remain
RECURSIVE generate_with_retry(_, _)
generate_with_retry(outcomes, n) ==
    IF Retries(outcomes[n]) /\ n < STOP_AFTER_ATTEMPT
    THEN <<outcomes[n]>> \o generate_with_retry(outcomes, n + 1)
    ELSE <<outcomes[n]>>

\* what the model's answer parses to (services.py 202): an object that titles
\* every contact, one that titles the first contact only, or anything else
\* (not an object, or None for text that is not JSON): "all", "first", "other"
Reply(kind, all_contacts_list) ==
    [c \in (CASE kind = "all" -> Elems(all_contacts_list)
              [] kind = "first" -> {all_contacts_list[1]}
              [] OTHER -> {}) |-> <<"Title of ">> \o c]

\* services.py 167-211: [calls, title_map]; the mapping is {} without a call
\* for no contacts, {} when the last call failed (its exception, or tenacity's
\* RetryError, is caught at 209) and {} when the answer is not an object
generate_titles_for_contacts_batch(found, outcomes, kind) ==
    IF AllContacts(found) = <<>> THEN [calls |-> <<>>, title_map |-> <<>>]
    ELSE LET calls == generate_with_retry(outcomes, 1)
         IN  [calls |-> calls,
              title_map |-> IF calls[Len(calls)] = "ok"
                            THEN Reply(kind, AllContacts(found))
                            ELSE <<>>]

\* faulty variant of Get: the mapping is not consulted
GetDefault(titles, contact, default) == default

\* title_map.get(contact, default)
Get(titles, contact, default) ==
    IF contact \in DOMAIN titles THEN titles[contact] ELSE default

empty_contacts == [urls |-> <<>>, emails |-> <<>>, phones |-> <<>>]

\* services.py 227-245: structured_output, with the titles of 231, 235-237
\* and 244 for a contact the mapping does not have
StructuredOutput(found, titles) ==
    [urls |-> [i \in 1..Len(Sorted(Elems(found.urls))) |->
                  LET url == Sorted(Elems(found.urls))[i]
                  IN  [contact |-> url,
                       title |-> Get(titles, url, <<"Visit Link">>)]],
     emails |-> [i \in 1..Len(Sorted(Elems(found.emails))) |->
                  LET email == Sorted(Elems(found.emails))[i]
                  IN  [contact |-> email,
                       title |->
                           Get(titles, email,
                               <<"Email ">>
                               \o Title(ReplaceDots(LocalPart(email))))]],
     phones |-> [i \in 1..Len(Sorted(Elems(found.phones))) |->
                  LET phone == Sorted(Elems(found.phones))[i]
                  IN  [contact |-> phone,
                       title |-> Get(titles, phone, <<"Call ">> \o phone)]]]

\* services.py 214-251: what the contact thread extracts, calls and puts
extract_and_generate_contact_titles(matches, sources, outcomes, kind) ==
    LET found == find_contacts_with_regex(matches, sources)
        batch == generate_titles_for_contacts_batch(found, outcomes, kind)
    IN  IF found.state = "raised"
        THEN [found |-> [state |-> "raised", urls |-> <<>>, emails |-> <<>>,
                         phones |-> <<>>], calls |-> <<>>,
              title_map |-> <<>>, posted |-> empty_contacts]
        ELSE IF AllContacts(found) = <<>>
        THEN [found |-> found, calls |-> <<>>, title_map |-> <<>>,
              posted |-> empty_contacts]
        ELSE [found |-> found, calls |-> batch.calls,
              title_map |-> batch.title_map,
              posted |-> StructuredOutput(found, batch.title_map)]

\* services.py 214-251: the contact thread puts its one result, for a text,
\* call outcomes and an answer drawn from the given sets
ContactRun(texts, outcome_seqs, kinds) ==
    /\ thread_state["contact"] = "running"
    /\ \E matches \in texts, outcomes \in outcome_seqs, kind \in kinds :
           LET run == extract_and_generate_contact_titles(
                          matches, source_urls, outcomes, kind)
           IN  /\ found_contacts' = run.found
               /\ title_calls' = run.calls
               /\ title_map' = run.title_map
               /\ result_queue' =
                      Append(result_queue, <<"contact_info", run.posted>>)
    /\ thread_state' = [thread_state EXCEPT !["contact"] = "posted"]
    /\ UNCHANGED <<payload_message, history, message, pii_found, masked_message,
                   response, pc, events, full_response_text, summary,
                   source_urls, processed_history, summary_calls,
                   completion_calls, threads, reads, waited, raised,
                   follow_up_reply,
                   ingVars, webVars, peer, crawl, other>>

\* the contact thread of one /conversation request: a text without contacts
\* or one with two emails and a URL; a call that succeeds or one that is
\* always out of quota
ContactPost ==
    ContactRun({t \in TextContacts : t.state = "found" /\ t.phones = {}},
               {o \in [1..STOP_AFTER_ATTEMPT -> {"ok", "ResourceExhausted"}] :
                    \A i, j \in DOMAIN o : o[i] = o[j]},
               {"first"})

\* the contact thread on every text, call outcome and answer of the model
ContactPostAny ==
    ContactRun(TextContacts,
               [1..STOP_AFTER_ATTEMPT -> {"ok", "ResourceExhausted", "error"}],
               {"all", "first", "other"})

\* what the follow-up call gives: an exception; text that is not JSON
\* (parse_json_from_markdown returns None); JSON that is not an object; an
\* object without "questions"; "questions" that is not an array; an array of
\* three questions; an array of two
FollowUpReplies ==
    { [kind |-> "raise", questions |-> <<>>],
      [kind |-> "not_json", questions |-> <<>>],
      [kind |-> "not_object", questions |-> <<>>],
      [kind |-> "no_questions", questions |-> <<>>],
      [kind |-> "questions_not_list", questions |-> <<>>],
      [kind |-> "questions", questions |-> <<"q1", "q2", "q3">>],
      [kind |-> "questions", questions |-> <<"q1", "q2">>] }

\* services.py 259-289: the list put under "follow_up_questions"; a raise,
\* and None.get or list.get (AttributeError), end in the except clause of 287
generate_follow_ups_async(reply) ==
    IF reply.kind \in {"raise", "not_json", "not_object"} THEN <<>>
    ELSE IF reply.kind = "no_questions" THEN <<>>
    ELSE IF reply.kind = "questions_not_list" THEN <<>>
    ELSE reply.questions

\* faulty variant of FollowUpRun: no except clause, an exception of the
\* call ends the thread without a put
FollowUpRunLosesException(replies) ==
    /\ thread_state["follow_up"] = "running"
    /\ \E reply \in replies :
           /\ follow_up_reply' = reply.kind
           /\ result_queue' =
                  IF reply.kind = "raise" THEN result_queue
                  ELSE Append(result_queue,
                              <<"follow_up", generate_follow_ups_async(reply)>>)
    /\ thread_state' = [thread_state EXCEPT !["follow_up"] = "posted"]
    /\ UNCHANGED <<payload_message, history, message, pii_found, masked_message,
                   response, pc, events, full_response_text, summary,
                   source_urls, processed_history, summary_calls,
                   completion_calls, threads, reads, waited, raised,
                   found_contacts, title_calls, title_map,
                   ingVars, webVars, peer, crawl, other>>

\* services.py 254-289: the follow-up thread puts its one result, for an
\* answer drawn from the given set
FollowUpRun(replies) ==
    /\ thread_state["follow_up"] = "running"
    /\ \E reply \in replies :
           /\ follow_up_reply' = reply.kind
           /\ result_queue' =
                  Append(result_queue,
                         <<"follow_up", generate_follow_ups_async(reply)>>)
    /\ thread_state' = [thread_state EXCEPT !["follow_up"] = "posted"]
    /\ UNCHANGED <<payload_message, history, message, pii_found, masked_message,
                   response, pc, events, full_response_text, summary,
                   source_urls, processed_history, summary_calls,
                   completion_calls, threads, reads, waited, raised,
                   found_contacts, title_calls, title_map,
                   ingVars, webVars, peer, crawl, other>>

\* the follow-up thread of one /conversation request: the call raises or
\* gives an array of questions
FollowUpPost ==
    FollowUpRun({r \in FollowUpReplies : r.kind \in {"raise", "questions"}})

\* the follow-up thread on every answer of the model
FollowUpPostAny == FollowUpRun(FollowUpReplies)

\* main.py 369-372: get returns an item within the timeout (after no wait
\* or just before the timeout) and it is relayed; the for loop runs
\* len(threads) times
ReadGet ==
    /\ pc = "collect"
    /\ reads < Len(threads)
    /\ result_queue # <<>>
    /\ \E d \in {0, QUEUE_GET_TIMEOUT - 1} : waited' = waited + d
    /\ events' = Append(events, Named(Head(result_queue)[1], Head(result_queue)[2]))
    /\ result_queue' = Tail(result_queue)
    /\ reads' = reads + 1
    /\ pc' = IF reads + 1 >= Len(threads) THEN "finally" ELSE "collect"
    /\ UNCHANGED <<payload_message, history, message, pii_found, masked_message,
                   response, full_response_text, summary, source_urls,
                   processed_history, summary_calls, completion_calls, threads,
                   thread_state, raised, found_contacts, title_calls, title_map,
                   follow_up_reply,
                   ingVars, webVars, peer, crawl, other>>

\* faulty variant of ReadTimeout: a timed-out get is tried again
ReadTimeoutRetries ==
    /\ pc = "collect"
    /\ reads < Len(threads)
    /\ result_queue = <<>>
    /\ waited' = waited + QUEUE_GET_TIMEOUT
    /\ UNCHANGED <<payload_message, history, message, pii_found, masked_message,
                   response, pc, events, full_response_text, summary,
                   source_urls, processed_history, summary_calls,
                   completion_calls, threads, thread_state, result_queue, reads,
                   raised, found_contacts, title_calls, title_map,
                   follow_up_reply,
                   ingVars, webVars, peer, crawl, other>>

\* main.py 373-376: queue.Empty after the timeout; nothing is yielded and
\* the loop moves on
ReadTimeout ==
    /\ pc = "collect"
    /\ reads < Len(threads)
    /\ result_queue = <<>>
    /\ waited' = waited + QUEUE_GET_TIMEOUT
    /\ reads' = reads + 1
    /\ pc' = IF reads + 1 >= Len(threads) THEN "finally" ELSE "collect"
    /\ UNCHANGED <<payload_message, history, message, pii_found, masked_message,
                   response, events, full_response_text, summary, source_urls,
                   processed_history, summary_calls, completion_calls, threads,
                   thread_state, result_queue, raised, found_contacts,
                   title_calls, title_map, follow_up_reply,
                   ingVars, webVars, peer, crawl, other>>

\* main.py 372: building the relayed event raises after get returned
ReadRaise ==
    /\ pc = "collect"
    /\ reads < Len(threads)
    /\ result_queue # <<>>
    /\ \E d \in {0, QUEUE_GET_TIMEOUT - 1} : waited' = waited + d
    /\ result_queue' = Tail(result_queue)
    /\ reads' = reads + 1
    /\ \E e \in Exceptions : Raise("relay", e)
    /\ UNCHANGED <<payload_message, history, message, pii_found, masked_message,
                   response, full_response_text, summary, source_urls,
                   processed_history, summary_calls, completion_calls, threads,
                   thread_state, found_contacts, title_calls, title_map,
                   follow_up_reply,
                   ingVars, webVars, peer, crawl, other>>

\* main.py 382-384: the finally clause yields done
Finally ==
    /\ pc = "finally"
    /\ events' = Append(events, DoneEvent)
    /\ pc' = "done"
    /\ UNCHANGED <<payload_message, history, message, pii_found, masked_message,
                   response, full_response_text, summary, source_urls,
                   processed_history, summary_calls, completion_calls, threads,
                   thread_state, result_queue, reads, waited, raised,
                   found_contacts, title_calls, title_map, follow_up_reply,
                   ingVars, webVars, peer, crawl, other>>

(* ------------------------------------------------------------------ urls *)
\* a URL is a sequence of pieces; startswith compares leading pieces
AllowedPrefix == <<"https://nation.example/">>
PageUrl == <<"https://nation.example/", "page">>
PdfUrl == <<"https://nation.example/", "doc.pdf">>
OtherUrl == <<"https://other.example/", "page">>

\* str.startswith(tuple of prefixes)
StartsWith(url, prefixes) ==
    \E i \in 1..Len(prefixes) :
        /\ Len(prefixes[i]) <= Len(url)
        /\ SubSeq(url, 1, Len(prefixes[i])) = prefixes[i]

\* hashlib.sha256(document_url.encode('utf-8')).hexdigest(): one digest per URL
Sha256(url) == <<"sha256">> \o url

\* vector_store.py 69-74: "{file_display_name}|{url_encode(url)}.txt"
CreateSafeGcsBlobName(file_display_name, document_url) ==
    [hash |-> file_display_name, encoded_url |-> document_url, suffix |-> ".txt"]

\* str(file.display_name).split("|")[0]
DisplayHash(file) == file.display_name.hash

(* ----------------------------------------------------------------- tasks *)
NoTask == [payload |-> "none"]

\* the value of a URL key the JSON object does not have: dict.get gives None,
\* dict[key] raises KeyError
Missing == <<"(missing)">>

\* faulty variant of Falsy: only the empty string is tested
FalsyOnlyEmpty(url) == url = <<>>

\* `not url`: None and "" are falsy
Falsy(url) == url = Missing \/ url = <<>>

\* json payloads: "absent" stands for a key the object does not have
Task(url, action, type) ==
    [payload |-> "object", url |-> url, action |-> action, type |-> type]

Tasks ==
    { Task(u, a, t) : u \in {PageUrl, PdfUrl}, a \in {"delete"}, t \in {"absent"} }
    \cup { Task(PageUrl, "upsert", "content"), Task(PdfUrl, "upsert", "media"),
           Task(PageUrl, "absent", "absent"), Task(PageUrl, "purge", "absent"),
           Task(OtherUrl, "upsert", "content"), Task(OtherUrl, "delete", "absent"),
           Task(<<>>, "upsert", "content"), Task(Missing, "delete", "absent"),
           [payload |-> "not_json"], [payload |-> "not_object"] }

\* data.get('action', 'upsert') and data.get('type', 'content')
ActionOf(t) == IF t.action = "absent" THEN "upsert" ELSE t.action
TypeOf(t) == IF t.type = "absent" THEN "content" ELSE t.type

IngInit(configs) ==
    /\ ALLOWED_URL_PREFIXES \in configs
    /\ rag_files = <<>>
    /\ gcs_blobs = <<>>
    /\ next_file = 1
    /\ delivery = NoTask
    /\ ipc = "idle"
    /\ content = <<>>
    /\ ack_state = "none"
    /\ deliveries = 0
    /\ faults = <<>>
    /\ log = <<>>

(* ------------------------------------------------------------ the bucket *)
\* gcs_blobs is a sequence of [name, content_type], one entry per blob name
HasBlob(name) == \E i \in 1..Len(gcs_blobs) : gcs_blobs[i].name = name

\* faulty variant of WithoutBlob: blob.delete() is not called
WithoutBlobKeeps(name) == gcs_blobs

WithoutBlob(name) == SelectSeq(gcs_blobs, LAMBDA b : b.name # name)

\* blob.upload_from_string: creates the blob or overwrites it
Uploaded(name, content_type) ==
    Append(WithoutBlob(name), [name |-> name, content_type |-> content_type])

(* ------------------------------------------------------------ the corpus *)
\* the first file, in list order, whose display name starts with the hash
FirstMatch(file_display_name) ==
    IF \E i \in 1..Len(rag_files) : DisplayHash(rag_files[i]) = file_display_name
    THEN CHOOSE i \in 1..Len(rag_files) :
             /\ DisplayHash(rag_files[i]) = file_display_name
             /\ \A k \in 1..(i - 1) : DisplayHash(rag_files[k]) # file_display_name
    ELSE 0

RemoveAt(seq, i) == SubSeq(seq, 1, i - 1) \o SubSeq(seq, i + 1, Len(seq))

\* faulty variant of DeleteExistingRagFile: the part of the display name after
\* "|", not the part before it, is compared with the hash
DeleteExistingRagFileWrongPart(file_display_name) ==
    SelectSeq(rag_files, LAMBDA f : f.display_name.encoded_url # file_display_name)

\* faulty variant of DeleteExistingRagFile: the display name is not compared,
\* the first file listed is deleted
DeleteExistingRagFileFirstListed(file_display_name) ==
    IF rag_files = <<>> THEN rag_files ELSE RemoveAt(rag_files, 1)

\* vector_store.py 76-90 when no call raises: the first matching file is
\* deleted and the loop breaks
DeleteExistingRagFile(file_display_name) ==
    IF FirstMatch(file_display_name) = 0 THEN rag_files
    ELSE RemoveAt(rag_files, FirstMatch(file_display_name))

\* rag.import_files of one GCS URI: the corpus gains a file named after the blob
Imported(blob_name) ==
    Append(rag_files, [name |-> next_file, display_name |-> blob_name])

(* ---------------------------------------------------------- the executor *)
\* faulty variant of max_workers: the executor has two threads
TwoWorkers == 1 + 1

\* subscriber.py 108: concurrent.futures.ThreadPoolExecutor(max_workers=1)
max_workers == 1

\* callbacks of this process that have started and not returned; a callback
\* runs on a thread of the executor of subscriber.py 108-109
Running ==
    (IF ipc # "idle" THEN 1 ELSE 0)
    + (IF peer.where = "thread" /\ peer.pc \notin {"idle", "returned"} THEN 1 ELSE 0)

(* ------------------------------------------- message_processing_callback *)
\* Pub/Sub hands the callback one message (flow control max_messages=1,
\* subscriber.py 103) once a thread of the executor is free; any task may be
\* (re)delivered
Deliver ==
    /\ ipc = "idle"
    /\ Running < max_workers
    /\ deliveries < MaxDeliveries
    /\ \E t \in Tasks : delivery' = t
    /\ deliveries' = deliveries + 1
    /\ ack_state' = "none"
    /\ content' = <<>>
    /\ faults' = <<>>
    /\ ipc' = "callback"
    /\ UNCHANGED <<ALLOWED_URL_PREFIXES, rag_files, gcs_blobs, next_file, log,
                   convVars, webVars, peer, crawl, other>>

Ack == ack_state' = "ack" /\ ipc' = "sleep"
Nack == ack_state' = "nack" /\ ipc' = "sleep"

\* faulty variant of Raised: the except clause acks
RaisedButAcked(call) == faults' = Append(faults, call) /\ Ack

\* subscriber.py 87-90: `call` raised and nothing below the callback caught
\* it; data is a dict here, so the except clause logs and nacks
Raised(call) == faults' = Append(faults, call) /\ Nack

\* a try/except inside VectorStore caught what `call` raised and logged it
Swallowed(call) == faults' = Append(faults, call)

\* subscriber.py 44-46 and 89-90 when the payload is not a JSON object:
\* json.loads or data.get raises, then data.get raises again inside the
\* except clause, so nack() is not reached; the finally clause still runs
HandlerRaises ==
    /\ faults' = faults \o <<IF delivery.payload = "not_json"
                                THEN "json_loads" ELSE "data_get",
                             "except_clause">>
    /\ ack_state' = ack_state
    /\ ipc' = "sleep"

\* faulty variant of Callback: the empty allow-list is not tested, and
\* url.startswith(()) is False
CallbackNoEmptyCheck ==
    /\ ipc = "callback"
    /\ IF delivery.payload # "object" THEN HandlerRaises
       ELSE /\ UNCHANGED faults
            /\ IF Falsy(delivery.url) THEN Ack
               ELSE IF ~StartsWith(delivery.url, ALLOWED_URL_PREFIXES) THEN Ack
               ELSE IF ActionOf(delivery) = "delete"
                    THEN ipc' = "delete_rag" /\ UNCHANGED ack_state
               ELSE IF ActionOf(delivery) = "upsert"
                    THEN /\ ipc' = IF TypeOf(delivery) = "media"
                                   THEN "fetch_media" ELSE "scrape"
                         /\ UNCHANGED ack_state
               ELSE Ack
    /\ UNCHANGED <<ALLOWED_URL_PREFIXES, rag_files, gcs_blobs, next_file,
                   delivery, content, deliveries, log, convVars, webVars, peer,
                   crawl, other>>

\* faulty variant of Callback: the URL is not tested against the prefixes
CallbackNoPrefixCheck ==
    /\ ipc = "callback"
    /\ IF delivery.payload # "object" THEN HandlerRaises
       ELSE /\ UNCHANGED faults
            /\ IF Falsy(delivery.url) THEN Ack
               ELSE IF ALLOWED_URL_PREFIXES = <<>> THEN Nack
               ELSE IF ActionOf(delivery) = "delete"
                    THEN ipc' = "delete_rag" /\ UNCHANGED ack_state
               ELSE IF ActionOf(delivery) = "upsert"
                    THEN /\ ipc' = IF TypeOf(delivery) = "media"
                                   THEN "fetch_media" ELSE "scrape"
                         /\ UNCHANGED ack_state
               ELSE Ack
    /\ UNCHANGED <<ALLOWED_URL_PREFIXES, rag_files, gcs_blobs, next_file,
                   delivery, content, deliveries, log, convVars, webVars, peer,
                   crawl, other>>

\* faulty variant of Callback: every action but delete is taken for an upsert
\* (`else` in place of `elif action == 'upsert'`)
CallbackElseUpsert ==
    /\ ipc = "callback"
    /\ IF delivery.payload # "object" THEN HandlerRaises
       ELSE /\ UNCHANGED faults
            /\ IF Falsy(delivery.url) THEN Ack
               ELSE IF ALLOWED_URL_PREFIXES = <<>> THEN Nack
               ELSE IF ~StartsWith(delivery.url, ALLOWED_URL_PREFIXES) THEN Ack
               ELSE IF ActionOf(delivery) = "delete"
                    THEN ipc' = "delete_rag" /\ UNCHANGED ack_state
               ELSE /\ ipc' = IF TypeOf(delivery) = "media"
                              THEN "fetch_media" ELSE "scrape"
                    /\ UNCHANGED ack_state
    /\ UNCHANGED <<ALLOWED_URL_PREFIXES, rag_files, gcs_blobs, next_file,
                   delivery, content, deliveries, log, convVars, webVars, peer,
                   crawl, other>>

\* subscriber.py 43-85: parse, the three guards, and the dispatch on action
Callback ==
    /\ ipc = "callback"
    /\ IF delivery.payload # "object" THEN HandlerRaises
       ELSE /\ UNCHANGED faults
            /\ IF Falsy(delivery.url) THEN Ack
               ELSE IF ALLOWED_URL_PREFIXES = <<>> THEN Nack
               ELSE IF ~StartsWith(delivery.url, ALLOWED_URL_PREFIXES) THEN Ack
               ELSE IF ActionOf(delivery) = "delete"
                    THEN ipc' = "delete_rag" /\ UNCHANGED ack_state
               ELSE IF ActionOf(delivery) = "upsert"
                    THEN /\ ipc' = IF TypeOf(delivery) = "media"
                                   THEN "fetch_media" ELSE "scrape"
                         /\ UNCHANGED ack_state
               ELSE Ack
    /\ UNCHANGED <<ALLOWED_URL_PREFIXES, rag_files, gcs_blobs, next_file,
                   delivery, content, deliveries, log, convVars, webVars, peer,
                   crawl, other>>

\* subscriber.py 76-78 and vector_store.py 171-174: the PDF is fetched; a
\* failed request or a non-2xx status raises; empty bytes make
\* upsert_pdf_with_llm_parser return
FetchMedia ==
    /\ ipc = "fetch_media"
    /\ \/ /\ Raised("fetch")
          /\ UNCHANGED content
       \/ /\ content' = <<>>
          /\ Ack
          /\ UNCHANGED faults
       \/ /\ content' = <<"pdf bytes">>
          /\ ipc' = "delete_rag"
          /\ UNCHANGED <<ack_state, faults>>
    /\ UNCHANGED <<ALLOWED_URL_PREFIXES, rag_files, gcs_blobs, next_file,
                   delivery, deliveries, log, convVars, webVars, peer, crawl,
                   other>>

\* faulty variant of Scrape: upsert_scraped_url ignores the error and
\* upsert_text_content does not test the content
ScrapeIgnoresError ==
    /\ ipc = "scrape"
    /\ \/ /\ \E call \in {"fetch", "parse_html"} : Swallowed(call)
          /\ content' = <<>>
       \/ /\ content' \in {<<>>, <<"page text">>}
          /\ UNCHANGED faults
    /\ ipc' = "delete_rag"
    /\ UNCHANGED ack_state
    /\ UNCHANGED <<ALLOWED_URL_PREFIXES, rag_files, gcs_blobs, next_file,
                   delivery, ack_state, deliveries, log, convVars, webVars, peer,
                   crawl, other>>

\* vector_store.py 242-249, 154-164, 126-152, 221-223: the page is scraped;
\* a failed request or non-2xx status, or a parse error, is caught and ends
\* the upsert, and so does empty text; the callback then acks
Scrape ==
    /\ ipc = "scrape"
    /\ \/ /\ \E call \in {"fetch", "parse_html"} : Swallowed(call)
          /\ Ack
          /\ UNCHANGED content
       \/ /\ content' = <<>>
          /\ Ack
          /\ UNCHANGED faults
       \/ /\ content' = <<"page text">>
          /\ ipc' = "delete_rag"
          /\ UNCHANGED <<ack_state, faults>>
    /\ UNCHANGED <<ALLOWED_URL_PREFIXES, rag_files, gcs_blobs, next_file,
                   delivery, deliveries, log, convVars, webVars, peer, crawl,
                   other>>

\* vector_store.py 76-90: _delete_existing_rag_file; an exception of
\* rag.list_files or rag.delete_file is logged and swallowed (89-90)
DeleteRag ==
    /\ ipc = "delete_rag"
    /\ \/ /\ rag_files' = DeleteExistingRagFile(Sha256(delivery.url))
          /\ UNCHANGED faults
       \/ /\ Swallowed("rag_delete")
          /\ UNCHANGED rag_files
    /\ ipc' = IF ActionOf(delivery) = "delete" THEN "delete_gcs" ELSE "upload"
    /\ UNCHANGED <<ALLOWED_URL_PREFIXES, gcs_blobs, next_file, delivery, content,
                   ack_state, deliveries, log, convVars, webVars, peer, crawl,
                   other>>

TaskBlob == CreateSafeGcsBlobName(Sha256(delivery.url), delivery.url)

\* vector_store.py 92-103 and subscriber.py 84-85: _delete_from_gcs; an
\* exception is logged and swallowed; then the callback acks
DeleteGcs ==
    /\ ipc = "delete_gcs"
    /\ \/ /\ gcs_blobs' = WithoutBlob(TaskBlob)
          /\ UNCHANGED faults
       \/ /\ Swallowed("blob_delete")
          /\ UNCHANGED gcs_blobs
    /\ Ack
    /\ UNCHANGED <<ALLOWED_URL_PREFIXES, rag_files, next_file, delivery, content,
                   deliveries, log, convVars, webVars, peer, crawl, other>>

\* vector_store.py 54-66, called at 179 and 229: the upload, or its exception
Upload ==
    /\ ipc = "upload"
    /\ \/ /\ gcs_blobs' =
                 Uploaded(TaskBlob, IF TypeOf(delivery) = "media"
                                    THEN "application/pdf"
                                    ELSE "text/plain; charset=utf-8")
          /\ ipc' = "import"
          /\ UNCHANGED <<ack_state, faults>>
       \/ /\ Raised("upload")
          /\ UNCHANGED gcs_blobs
    /\ UNCHANGED <<ALLOWED_URL_PREFIXES, rag_files, next_file, delivery, content,
                   deliveries, log, convVars, webVars, peer, crawl, other>>

\* vector_store.py 188-194 and 232-239, subscriber.py 84-85: the import, then
\* the ack; or the import's exception
Import ==
    /\ ipc = "import"
    /\ \/ /\ rag_files' = Imported(TaskBlob)
          /\ next_file' = next_file + 1
          /\ Ack
          /\ UNCHANGED faults
       \/ /\ Raised("import")
          /\ UNCHANGED <<rag_files, next_file>>
    /\ UNCHANGED <<ALLOWED_URL_PREFIXES, gcs_blobs, delivery, content,
                   deliveries, log, convVars, webVars, peer, crawl, other>>

\* subscriber.py 92-94: the finally clause pauses, then the callback returns
Sleep ==
    /\ ipc = "sleep"
    /\ log' = Append(log, [task |-> delivery, outcome |-> ack_state,
                           faults |-> faults])
    /\ ipc' = "idle"
    /\ UNCHANGED <<ALLOWED_URL_PREFIXES, rag_files, gcs_blobs, next_file,
                   delivery, content, ack_state, deliveries, faults, convVars,
                   webVars, peer, crawl, other>>

(* ------------------------------------------------------------ redelivery *)
\* the last finished callback nacked its message, and Pub/Sub delivers it
\* again (at-least-once delivery: the
\* nack of subscriber.py 90 returns the message to the subscription)
Redeliver ==
    /\ ipc = "idle"
    /\ Running < max_workers
    /\ log # <<>>
    /\ log[Len(log)].outcome = "nack"
    /\ delivery' = log[Len(log)].task
    /\ deliveries' = deliveries + 1
    /\ ack_state' = "none"
    /\ content' = <<>>
    /\ faults' = <<>>
    /\ ipc' = "callback"
    /\ UNCHANGED <<ALLOWED_URL_PREFIXES, rag_files, gcs_blobs, next_file, log,
                   convVars, webVars, peer, crawl, other>>

\* the callbacks, finished or running, in which the upload or the import
\* raised
FailedCalls ==
    Cardinality({i \in 1..Len(log) :
                    \E k \in 1..Len(log[i].faults) :
                        log[i].faults[k] \in {"upload", "import"}})
    + (IF ipc # "idle" /\ faults # <<>>
          /\ faults[Len(faults)] \in {"upload", "import"} THEN 1 ELSE 0)


(* ------------------------------------------------------ update_embedding *)
NoRequest == [json |-> "none"]

\* a URL field that is present and holds JSON null
Null == <<"(null)">>

\* a JSON object; "absent" stands for no `type` key, Missing for no
\* urls["en-us"] or no mediaUrl
WebRequest(type, en_us, mediaUrl) ==
    [json |-> "object", type |-> type, en_us |-> en_us, mediaUrl |-> mediaUrl]

\* main.py 148-156
DeleteTypes ==
    {"content-unpublished", "content-deleted", "media-deleted",
     "content-moving-to-recycle-bin", "content-moved-to-recycle-bin",
     "media-moving-to-recycle-bin", "media-moved-to-recycle-bin"}

\* main.py 159
UpsertTypes == {"content", "media"}

\* main.py 166: "content" in data_type
HasContent(data_type) ==
    data_type \in {"content", "content-unpublished", "content-deleted",
                   "content-moving-to-recycle-bin",
                   "content-moved-to-recycle-bin"}

\* main.py 168: "media" in data_type
HasMedia(data_type) ==
    data_type \in {"media", "media-deleted", "media-moving-to-recycle-bin",
                   "media-moved-to-recycle-bin"}

\* request.get_json() gave a falsy value (no body, {}, [] or null): "empty";
\* a truthy value that is not an object, such as [1]: "array"; or an object
WebRequests ==
    {[json |-> "empty"], [json |-> "array"],
     WebRequest("content", Null, Missing),
     WebRequest("absent", PageUrl, Missing),
     WebRequest("bogus", PageUrl, Missing),
     WebRequest("content", PageUrl, Missing),
     WebRequest("content", OtherUrl, Missing),
     WebRequest("content", Missing, PdfUrl),
     WebRequest("media", Missing, PdfUrl),
     WebRequest("content-deleted", PageUrl, Missing),
     WebRequest("media-deleted", Missing, PdfUrl),
     WebRequest("media-moved-to-recycle-bin", Missing, OtherUrl)}

WebInit(requests) ==
    /\ wh_request \in requests
    /\ wh_response = 0
    /\ wh_body = "none"
    /\ published = <<>>

\* main.py 141-160
WebAction(data_type) == IF data_type \in DeleteTypes THEN "delete" ELSE "upsert"

\* main.py 165-169
FinalUrl(q) ==
    IF HasContent(q.type) THEN q.en_us
    ELSE IF HasMedia(q.type) THEN q.mediaUrl
    ELSE <<>>

\* main.py 217-221: the published message
MessagePayload(action, final_url, data_type) ==
    Task(final_url, action, IF action = "upsert" THEN data_type ELSE "absent")

\* the handler returns jsonify({"error": ...}) with this status and
\* publishes nothing
Respond(status) ==
    wh_response' = status /\ wh_body' = "json" /\ UNCHANGED published

\* an exception leaves the view function: Flask answers 500 with its own
\* HTML error page
Unhandled ==
    wh_response' = 500 /\ wh_body' = "html" /\ UNCHANGED published

\* main.py 211-243: the task is published, or publishing raises
Publish(action, final_url, data_type) ==
    \/ /\ published' = Append(published,
                               MessagePayload(action, final_url, data_type))
       /\ wh_response' = 202
       /\ wh_body' = "json"
    \/ Respond(500)

\* main.py 129-243: one POST /update-embedding, from body to response;
\* query_data.get of a non-object (143) and None.startswith (195) raise
\* AttributeError outside any try
update_embedding ==
    /\ wh_request # NoRequest
    /\ wh_response = 0
    /\ IF wh_request.json = "empty" THEN Respond(400)
       ELSE IF wh_request.json = "array" THEN Unhandled
       ELSE IF wh_request.type = "absent" THEN Respond(400)
       ELSE IF wh_request.type \notin DeleteTypes \cup UpsertTypes
            THEN Respond(400)
       ELSE IF FinalUrl(wh_request) = Missing THEN Respond(400)
       ELSE IF ALLOWED_URL_PREFIXES = <<>> THEN Respond(403)
       ELSE IF FinalUrl(wh_request) = Null THEN Unhandled
       ELSE IF ~StartsWith(FinalUrl(wh_request), ALLOWED_URL_PREFIXES)
            THEN Respond(403)
       ELSE Publish(WebAction(wh_request.type), FinalUrl(wh_request),
                    wh_request.type)
    /\ UNCHANGED <<wh_request, convVars, ingVars, peer, crawl, other>>

(* ------------------------------------------------- a second callback run *)
PeerInit ==
    peer = [pc |-> "idle", task |-> NoTask, where |-> "none", ack |-> "none",
            fault |-> FALSE]

\* the duplicate deliveries a second callback run handles: tasks that pass
\* the guards of subscriber.py 50-63 and whose fetch returned content, so
\* that the run reaches the store
PeerBegin(where) ==
    /\ peer.pc = "idle"
    /\ ALLOWED_URL_PREFIXES # <<>>
    /\ \E t \in {Task(PageUrl, "upsert", "content"),
                 Task(PageUrl, "delete", "absent")} :
           peer' = [pc |-> "delete_rag", task |-> t, where |-> where,
                    ack |-> "none", fault |-> FALSE]
    /\ UNCHANGED <<convVars, ingVars, webVars, crawl, other>>

\* the scheduler submits the callback for another message to the executor of
\* this process, which runs it once one of its max_workers threads is free
PeerOnThread ==
    /\ Running < max_workers
    /\ PeerBegin("thread")

\* another consumer process (a second replica of the worker, subscriber.py
\* 127-128) receives a duplicate delivery; the two processes share the corpus
\* and the bucket and nothing else
PeerOnReplica == PeerBegin("replica")

PeerBlob == CreateSafeGcsBlobName(Sha256(peer.task.url), peer.task.url)

\* vector_store.py 76-90 in the second run
PeerDeleteRag ==
    /\ peer.pc = "delete_rag"
    /\ \/ /\ rag_files' = DeleteExistingRagFile(Sha256(peer.task.url))
          /\ peer' = [peer EXCEPT !.pc = IF ActionOf(peer.task) = "delete"
                                         THEN "delete_gcs" ELSE "upload"]
       \/ /\ UNCHANGED rag_files
          /\ peer' = [peer EXCEPT !.pc = IF ActionOf(peer.task) = "delete"
                                         THEN "delete_gcs" ELSE "upload",
                                  !.fault = TRUE]
    /\ UNCHANGED <<ALLOWED_URL_PREFIXES, gcs_blobs, next_file, delivery, ipc,
                   content, ack_state, deliveries, faults, log, convVars,
                   webVars, crawl, other>>

\* vector_store.py 92-103 and subscriber.py 84-85 in the second run
PeerDeleteGcs ==
    /\ peer.pc = "delete_gcs"
    /\ \/ /\ gcs_blobs' = WithoutBlob(PeerBlob)
          /\ peer' = [peer EXCEPT !.pc = "sleep", !.ack = "ack"]
       \/ /\ UNCHANGED gcs_blobs
          /\ peer' = [peer EXCEPT !.pc = "sleep", !.ack = "ack", !.fault = TRUE]
    /\ UNCHANGED <<ALLOWED_URL_PREFIXES, rag_files, next_file, delivery, ipc,
                   content, ack_state, deliveries, faults, log, convVars,
                   webVars, crawl, other>>

\* vector_store.py 54-66 (called at 229) in the second run
PeerUpload ==
    /\ peer.pc = "upload"
    /\ \/ /\ gcs_blobs' = Uploaded(PeerBlob, "text/plain; charset=utf-8")
          /\ peer' = [peer EXCEPT !.pc = "import"]
       \/ /\ UNCHANGED gcs_blobs
          /\ peer' = [peer EXCEPT !.pc = "sleep", !.ack = "nack", !.fault = TRUE]
    /\ UNCHANGED <<ALLOWED_URL_PREFIXES, rag_files, next_file, delivery, ipc,
                   content, ack_state, deliveries, faults, log, convVars,
                   webVars, crawl, other>>

\* vector_store.py 232-239 and subscriber.py 84-90 in the second run
PeerImport ==
    /\ peer.pc = "import"
    /\ \/ /\ rag_files' = Imported(PeerBlob)
          /\ next_file' = next_file + 1
          /\ peer' = [peer EXCEPT !.pc = "sleep", !.ack = "ack"]
       \/ /\ UNCHANGED <<rag_files, next_file>>
          /\ peer' = [peer EXCEPT !.pc = "sleep", !.ack = "nack", !.fault = TRUE]
    /\ UNCHANGED <<ALLOWED_URL_PREFIXES, gcs_blobs, delivery, ipc, content,
                   ack_state, deliveries, faults, log, convVars, webVars, crawl, other>>

\* subscriber.py 92-94 in the second run
PeerSleep ==
    /\ peer.pc = "sleep"
    /\ peer' = [peer EXCEPT !.pc = "returned"]
    /\ UNCHANGED <<convVars, ingVars, webVars, crawl, other>>

(* ------------------------------------------------------------ the crawler *)
\* a URL is written as urlparse splits it: <<netloc, path, query or fragment>>

\* the absolute links (urljoin, crawler.py 247) a page can hold, in document
\* order: up to n links, on the crawled domain and off it, with and without
\* a query
RECURSIVE LinkLists(_)
LinkLists(n) ==
    IF n = 0 THEN {<<>>}
    ELSE LET shorter == LinkLists(n - 1)
         IN  shorter \cup
             {Append(s, <<h, p, q>>) :
                  s \in {x \in shorter : Len(x) = n - 1},
                  h \in {"nation.example", "other.example"},
                  p \in {"/", "/a", "/b"}, q \in {"", "?q=1"}}

\* <<>> as the start: no crawl was asked for
CrawlInit(starts) ==
    crawl \in {[pc |-> "start", start_url |-> s, domain_netloc |-> "",
                urls_to_visit |-> <<>>, visited_urls |-> {},
                enqueued |-> <<>>, processed |-> <<>>] : s \in starts}

\* crawler.py 228-237: the start URL's netloc, or the return when it has none
CrawlStart ==
    /\ crawl.pc = "start"
    /\ crawl.start_url # <<>>
    /\ crawl' = IF crawl.start_url[1] = ""
                THEN [crawl EXCEPT !.pc = "returned"]
                ELSE [crawl EXCEPT !.pc = "loop",
                                   !.domain_netloc = crawl.start_url[1],
                                   !.urls_to_visit = <<crawl.start_url>>,
                                   !.visited_urls = {crawl.start_url},
                                   !.enqueued = <<crawl.start_url>>]
    /\ UNCHANGED <<convVars, ingVars, webVars, peer, other>>

\* faulty variant of Enqueue: the link as found, not the cleaned link, is
\* looked up in visited_urls
RECURSIVE EnqueueLooksUpRawLink(_, _)
EnqueueLooksUpRawLink(c, links) ==
    IF links = <<>> THEN c
    ELSE LET parsed_link == Head(links)
             clean_link == <<parsed_link[1], parsed_link[2], "">>
         IN  EnqueueLooksUpRawLink(
                 IF parsed_link[1] = c.domain_netloc
                    /\ parsed_link \notin c.visited_urls
                 THEN [c EXCEPT !.visited_urls = @ \cup {clean_link},
                                !.urls_to_visit = Append(@, clean_link),
                                !.enqueued = Append(@, clean_link)]
                 ELSE c,
                 Tail(links))

\* crawler.py 245-254: the loop over the links of one page; clean_link is
\* the link without query and fragment
RECURSIVE Enqueue(_, _)
Enqueue(c, links) ==
    IF links = <<>> THEN c
    ELSE LET parsed_link == Head(links)
             clean_link == <<parsed_link[1], parsed_link[2], "">>
         IN  Enqueue(
                 IF parsed_link[1] = c.domain_netloc
                    /\ clean_link \notin c.visited_urls
                 THEN [c EXCEPT !.visited_urls = @ \cup {clean_link},
                                !.urls_to_visit = Append(@, clean_link),
                                !.enqueued = Append(@, clean_link)]
                 ELSE c,
                 Tail(links))

\* crawler.py 239-258 with process_url (192-222): the next URL is taken from
\* the left and processed; process_url returns the page's HTML after
\* ingesting it, or None (a PDF was ingested; the request, the parse or the
\* ingestion failed; the content type is not supported); the links of the
\* HTML are enqueued
CrawlVisit ==
    /\ crawl.pc = "loop"
    /\ crawl.urls_to_visit # <<>>
    /\ \E outcome \in {"html", "pdf", "failed"} :
       \E links \in LinkLists(MaxLinks) :
           LET current_url == Head(crawl.urls_to_visit)
               popped == [crawl EXCEPT
                             !.urls_to_visit = Tail(@),
                             !.processed = Append(@, [url |-> current_url,
                                                      outcome |-> outcome])]
           IN  crawl' = IF outcome = "html" THEN Enqueue(popped, links)
                        ELSE popped
    /\ UNCHANGED <<convVars, ingVars, webVars, peer, other>>

\* crawler.py 239 and 260: the queue is empty and the crawl is over
CrawlFinish ==
    /\ crawl.pc = "loop"
    /\ crawl.urls_to_visit = <<>>
    /\ crawl' = [crawl EXCEPT !.pc = "finished"]
    /\ UNCHANGED <<convVars, ingVars, webVars, peer, other>>

CrawlStep == CrawlStart \/ CrawlVisit \/ CrawlFinish

(* ------------------------------------------- a second /conversation request *)
\* another request streamed by the same process at the same time: its
\* generator has reached main.py 348; its queue, what its threads have put,
\* its reads and the background events its stream has carried
OtherInit ==
    other = [pc |-> "none", result_queue |-> <<>>, posted |-> {}, reads |-> 0,
             events |-> <<>>]

\* what the two tasks of the other request put: its answer named another
\* page and its questions are about it
OtherResults ==
    [contact |-> <<"contact_info",
                   [urls |-> <<[contact |-> <<"https://nation.example/other">>,
                                title |-> <<"Visit Link">>]>>,
                    emails |-> <<>>, phones |-> <<>>]>>,
     follow_up |-> <<"follow_up", <<"other q1", "other q2", "other q3">>>>]

\* faulty variant of QueueArg: one module-level queue for every request
QueueArgGlobal(request) == "first"

\* main.py 348, 356, 364: the queue a request's generator reads and hands to
\* its two threads is the one it created itself
QueueArg(request) == request

\* main.py 348-367 in the other request
OtherLaunch ==
    /\ other.pc = "none"
    /\ pc \notin {"request", "responded"}
    /\ other' = [other EXCEPT !.pc = "collect"]
    /\ UNCHANGED <<convVars, ingVars, webVars, peer, crawl>>

\* services.py 247-250 and 279-289 in a thread of the other request: one put
\* to the queue it was given, also after its generator stopped reading
OtherPost ==
    /\ other.pc # "none"
    /\ \E t \in {"contact", "follow_up"} \ other.posted :
           IF QueueArg("other") = "other"
           THEN /\ other' = [other EXCEPT
                                !.posted = @ \cup {t},
                                !.result_queue = Append(@, OtherResults[t])]
                /\ UNCHANGED result_queue
           ELSE /\ other' = [other EXCEPT !.posted = @ \cup {t}]
                /\ result_queue' = Append(result_queue, OtherResults[t])
    /\ UNCHANGED <<payload_message, history, message, pii_found, masked_message,
                   response, pc, events, full_response_text, summary,
                   source_urls, processed_history, summary_calls,
                   completion_calls, threads, thread_state, reads, waited,
                   raised, found_contacts, title_calls, title_map,
                   follow_up_reply,
                   ingVars, webVars, peer, crawl>>

\* main.py 369-376 in the other request: one get on its queue; the item is
\* relayed, or the get times out; after two reads its stream ends
OtherRead ==
    /\ other.pc = "collect"
    /\ LET mine == QueueArg("other") = "other"
           q == IF mine THEN other.result_queue ELSE result_queue
           after == IF other.reads + 1 >= 2 THEN "done" ELSE "collect"
       IN  IF q = <<>>
           THEN /\ other' = [other EXCEPT !.reads = @ + 1, !.pc = after]
                /\ UNCHANGED result_queue
           ELSE /\ other' = [other EXCEPT
                                !.reads = @ + 1, !.pc = after,
                                !.events = Append(@, Head(q)),
                                !.result_queue = IF mine THEN Tail(q) ELSE @]
                /\ result_queue' = IF mine THEN result_queue ELSE Tail(q)
    /\ UNCHANGED <<payload_message, history, message, pii_found, masked_message,
                   response, pc, events, full_response_text, summary,
                   source_urls, processed_history, summary_calls,
                   completion_calls, threads, thread_state, reads, waited,
                   raised, found_contacts, title_calls, title_map,
                   follow_up_reply,
                   ingVars, webVars, peer, crawl>>

(* -------------------------------------------------------- specifications *)
vars == <<convVars, ingVars, webVars, peer, crawl, other>>

\* the /conversation stream generator
StreamStep ==
    \/ Validate
    \/ HtmlBranch
    \/ PiiBranch
    \/ Summarize
    \/ InvokeCompletion
    \/ CompletionText
    \/ CompletionRaise
    \/ CompletionSources
    \/ Launch
    \/ LaunchRaise
    \/ ReadGet
    \/ ReadTimeout
    \/ ReadRaise
    \/ Finally

Init ==
    /\ ConvInit(SampleMessages, 0..MaxHistory)
    /\ IngInit({<<AllowedPrefix>>})
    /\ WebInit({NoRequest})
    /\ PeerInit
    /\ CrawlInit({<<>>})
    /\ OtherInit

Next ==
    \/ StreamStep
    \/ ContactPost
    \/ FollowUpPost

\* one /conversation request
Spec == Init /\ [][Next]_vars

\* the WSGI server keeps pulling the generator, and each of its steps returns
\* (get has a timeout); the background threads owe nothing
LiveSpec == Spec /\ WF_vars(StreamStep)

\* the request handler on every message of up to MaxMsgLen tokens, up to the
\* Completion Service call
InputInit ==
    /\ ConvInit(Strings(MaxMsgLen), 0..MaxHistory)
    /\ IngInit({<<AllowedPrefix>>})
    /\ WebInit({NoRequest})
    /\ PeerInit
    /\ CrawlInit({<<>>})
    /\ OtherInit

InputSpec ==
    /\ InputInit
    /\ [][\/ Validate
          \/ HtmlBranch
          \/ PiiBranch
          \/ Summarize
          \/ InvokeCompletion
          \/ Finally]_vars

\* the ingestion consumer
IngestNext ==
    \/ Deliver
    \/ Callback
    \/ FetchMedia
    \/ Scrape
    \/ DeleteRag
    \/ DeleteGcs
    \/ Upload
    \/ Import
    \/ Sleep

IngestInit ==
    /\ ConvInit({<<>>}, {0})
    /\ IngInit({<<>>, <<AllowedPrefix>>})
    /\ WebInit({NoRequest})
    /\ PeerInit
    /\ CrawlInit({<<>>})
    /\ OtherInit

IngestSpec ==
    /\ IngestInit
    /\ [][IngestNext]_vars

\* one POST /update-embedding and the ingestion consumer, which read the same
\* URL_PREFIXES_EMBEDDING setting
GateInit ==
    /\ ConvInit({<<>>}, {0})
    /\ IngInit({<<>>, <<AllowedPrefix>>})
    /\ WebInit(WebRequests)
    /\ PeerInit
    /\ CrawlInit({<<>>})
    /\ OtherInit

GateSpec ==
    /\ GateInit
    /\ [][update_embedding \/ IngestNext]_vars

\* the consumer together with a second run of its callback, on a thread of
\* its own executor or in another consumer process
OverlapInit ==
    /\ ConvInit({<<>>}, {0})
    /\ IngInit({<<AllowedPrefix>>})
    /\ WebInit({NoRequest})
    /\ PeerInit
    /\ CrawlInit({<<>>})
    /\ OtherInit

OverlapSpec ==
    /\ OverlapInit
    /\ [][\/ IngestNext
          \/ PeerOnThread
          \/ PeerOnReplica
          \/ PeerDeleteRag
          \/ PeerDeleteGcs
          \/ PeerUpload
          \/ PeerImport
          \/ PeerSleep]_vars

\* one /conversation request with a plain message, and the two background
\* threads on every input of the model
TaskInit ==
    /\ ConvInit({<<"nore", " ", "ig">>}, {0})
    /\ IngInit({<<AllowedPrefix>>})
    /\ WebInit({NoRequest})
    /\ PeerInit
    /\ CrawlInit({<<>>})
    /\ OtherInit

TaskSpec ==
    /\ TaskInit
    /\ [][\/ Validate
          \/ Summarize
          \/ InvokeCompletion
          \/ CompletionText
          \/ CompletionRaise
          \/ CompletionSources
          \/ Launch
          \/ LaunchRaise
          \/ ContactPostAny
          \/ FollowUpPostAny
          \/ ReadGet
          \/ ReadTimeout
          \/ ReadRaise
          \/ Finally]_vars

\* upserts of an allowed URL that can be fetched, published one after the
\* other; a nacked one is delivered again, and the upload and the import
\* fail in at most MaxFailures callbacks
CallbackStep ==
    \/ Callback
    \/ FetchMedia /\ content' # <<>>
    \/ Scrape /\ content' # <<>>
    \/ DeleteRag
    \/ Upload /\ FailedCalls' <= MaxFailures
    \/ Import /\ FailedCalls' <= MaxFailures
    \/ Sleep

\* the subscriber keeps running callbacks to their end, and Pub/Sub keeps
\* delivering what was nacked
RedeliverSpec ==
    /\ OverlapInit
    /\ [][\/ /\ ~(log # <<>> /\ log[Len(log)].outcome = "nack")
             /\ Deliver
             /\ delivery' \in {Task(PageUrl, "upsert", "content"),
                               Task(PdfUrl, "upsert", "media")}
          \/ Redeliver
          \/ CallbackStep]_vars
    /\ WF_vars(Redeliver)
    /\ WF_vars(CallbackStep)

\* one crawl_domain call, from a start URL with or without a query and from
\* one without a network location; the script runs the loop to its end
CrawlFrom ==
    /\ ConvInit({<<>>}, {0})
    /\ IngInit({<<AllowedPrefix>>})
    /\ WebInit({NoRequest})
    /\ PeerInit
    /\ CrawlInit({<<"nation.example", "/", "">>,
                  <<"nation.example", "/", "?q=1">>,
                  <<"", "page", "">>})
    /\ OtherInit

CrawlSpec == CrawlFrom /\ [][CrawlStep]_vars /\ WF_vars(CrawlStep)

\* two /conversation requests streamed at the same time: the one of
\* TaskSpec, with the sample answers of its threads, and the collection loop
\* and threads of another
ConcurrentSpec ==
    /\ TaskInit
    /\ [][\/ Validate
          \/ Summarize
          \/ InvokeCompletion
          \/ CompletionText
          \/ CompletionRaise
          \/ CompletionSources
          \/ Launch
          \/ LaunchRaise
          \/ ContactPost
          \/ FollowUpPost
          \/ ReadGet
          \/ ReadTimeout
          \/ ReadRaise
          \/ Finally
          \/ OtherLaunch
          \/ OtherPost
          \/ OtherRead]_vars

(* ------------------------------------------------------------ the claims *)
Count(kind) == Cardinality({i \in 1..Len(events) : events[i].kind = kind})

IsText(ev) == ev.kind = "message" /\ ~ev.error
IsBackground(ev) == ev.kind \in {"contact_info", "follow_up"}

BackgroundCount == Cardinality({i \in 1..Len(events) : IsBackground(events[i])})

DoneIsLastAndOnly ==
    /\ pc = "done" =>
          /\ Len(events) >= 1
          /\ events[Len(events)] = DoneEvent
          /\ Count("done") = 1
    /\ pc # "done" => Count("done") = 0

\* C1: every run of the stream generator (HTML or PII short-circuit, main
\* path, timeouts, a step raising) ends, and its event sequence then holds
\* exactly one done event, which is the last event; no done event is yielded
\* before the end.
C1_ExactlyOneDoneLast ==
    /\ []DoneIsLastAndOnly
    /\ (response = "stream") ~> (pc = "done")

C1_Witness ==
    /\ pc = "done"
    /\ raised # <<>> /\ raised[1] = "relay"
    /\ events[Len(events)] = DoneEvent

\* C2: whenever the PII check flagged the message, the finished stream is
\* exactly the privacy refusal followed by done, and neither the Completion
\* Service, the History Summarizer nor a background thread was used.
C2_PiiStreamIsPrivacyRefusal ==
    (pc = "done" /\ pii_found) =>
        /\ events = <<ErrorDelta(PRIVACY_MSG), DoneEvent>>
        /\ completion_calls = <<>>
        /\ summary_calls = 0
        /\ threads = <<>>

\* C3: a background thread exists only once the Completion Service output
\* was read to its end (the sources chunk was relayed), and every relayed
\* text chunk and the sources event precede every contact_info and
\* follow_up event.
C3_BackgroundAfterCompletion ==
    /\ \A t \in DOMAIN thread_state :
           thread_state[t] # "new" =>
               /\ pc \in {"collect", "finally", "done"}
               /\ Count("sources") = 1
    /\ \A i, j \in 1..Len(events) :
           (IsBackground(events[i]) /\ (IsText(events[j]) \/ events[j].kind = "sources"))
               => j < i

C3_Witness ==
    /\ pc = "done"
    /\ \E i \in 1..Len(events) : IsText(events[i])
    /\ Count("contact_info") = 1
    /\ Count("follow_up") = 1

\* C4: when a step raised, the stream holds exactly one Error TextDelta, with
\* the fixed message, and nothing but done follows it; no event ever carries
\* the exception text; without an exception there is no Error TextDelta.
C4_ErrorThenDone ==
    LET errs == {i \in 1..Len(events) :
                    events[i].kind = "message" /\ events[i] = ErrorDelta(ERROR_MSG)}
    IN  /\ raised # <<>> =>
              /\ Cardinality(errs) = 1
              /\ \A i \in errs :
                     \/ i = Len(events)
                     \/ i = Len(events) - 1 /\ events[Len(events)] = DoneEvent
        /\ raised = <<>> => errs = {}
        /\ \A i \in 1..Len(events) :
               events[i].kind = "message" => events[i].data \notin Exceptions

C4_Witness ==
    /\ pc = "done"
    /\ raised # <<>> /\ raised[1] = "completion"
    /\ Len(events) = 3
    /\ IsText(events[1])

\* C5: with a non-empty history, when the History Summarizer raised or gave
\* an empty result, the Completion Service was still invoked, with the
\* original history, and no Error TextDelta is due to the summarizer.
C5_SummarizerFailureKeepsRequest ==
    (pc = "done" /\ Len(history) > 0 /\ summary_calls > 0 /\ summary = <<>>) =>
        /\ Len(completion_calls) = 1
        /\ completion_calls[1].history = history
        /\ (raised = <<>> \/ raised[1] # "summarize")

\* C6: at most len(threads) = 2 reads are made, each blocks for at most
\* QUEUE_GET_TIMEOUT, so the wait is at most 40; a stream that finishes
\* without an exception made exactly 2 reads; a read that timed out yielded
\* nothing (with neither thread posting the stream has no background event
\* and waited exactly 40); and while collecting, a read can always return.
C6_BoundedCollection ==
    /\ Len(threads) <= 2
    /\ reads <= Len(threads)
    /\ waited <= reads * QUEUE_GET_TIMEOUT
    /\ BackgroundCount <= reads
    /\ (pc = "done" /\ raised = <<>> /\ threads # <<>>) => reads = 2
    /\ (pc = "done" /\ raised = <<>> /\ threads # <<>>
          /\ \A t \in DOMAIN thread_state : thread_state[t] = "running") =>
              /\ waited = 2 * QUEUE_GET_TIMEOUT
              /\ BackgroundCount = 0
    /\ pc = "collect" => ENABLED (ReadGet \/ ReadTimeout)

C6_Witness ==
    /\ pc = "done"
    /\ waited = 2 * QUEUE_GET_TIMEOUT
    /\ \A t \in DOMAIN thread_state : thread_state[t] = "running"

\* the Completion Service output sequence was read to its end
CompletionExhausted ==
    /\ completion_calls # <<>>
    /\ (raised = <<>> \/ raised[1] \in {"launch", "relay"})

\* C7 as stated, on the streams in which no step raised: every finished
\* stream holds exactly one Sources event.
C7_ExactlyOneSourcesEveryStream ==
    (pc = "done" /\ raised = <<>>) => Count("sources") = 1

\* C7 amended: a stream never holds more than one Sources event and it comes
\* before done; a finished stream holds one exactly when the Completion
\* Service output was read to its end, and none otherwise (short-circuit, or
\* a step raised earlier).
C7_AtMostOneSources ==
    /\ Count("sources") <= 1
    /\ \A i, j \in 1..Len(events) :
           (events[i].kind = "sources" /\ events[j].kind = "done") => i < j
    /\ pc = "done" => (Count("sources") = 1 <=> CompletionExhausted)

C7_Witness == pc = "done" /\ Count("sources") = 1 /\ raised = <<>>

LengthOk(m) == StrLen(Strip(m)) >= MIN_TRIMMED_LEN /\ StrLen(m) <= MAX_RAW_LEN

Handled == pc \notin {"request", "responded"}

\* C8: for a message whose trimmed length is below 3 or whose raw length is
\* above 2048, the handler's message is the invalid-input sentinel, and every
\* Completion Service call of the request received that sentinel and not the
\* original text.
C8_InvalidLengthGetsSentinel ==
    ~LengthOk(payload_message) =>
        /\ Handled => message = <<INVALID_INPUT>>
        /\ \A i \in 1..Len(completion_calls) :
               /\ completion_calls[i].message = <<INVALID_INPUT>>
               /\ completion_calls[i].message # payload_message

C8_Witness ==
    /\ StrLen(payload_message) > MAX_RAW_LEN
    /\ Len(completion_calls) = 1

HasKeyword(m) ==
    \E keyword \in PROMPT_INJECTION_KEYWORDS : Contains(clean_text(Lower(m)), keyword)

\* C9 as stated: a message that contains an injection keyword (normalized)
\* or is "null" is handed onward as the prompt-filter sentinel, also when it
\* fails the length check.
C9_KeywordAlwaysPromptFilter ==
    (Handled /\ (HasKeyword(payload_message) \/ payload_message = <<"null">>)) =>
        message = <<PROMPT_FILTER>>

\* C9 amended: such a message is handed onward as the prompt-filter sentinel
\* when it passes the length check, and as the invalid-input sentinel when it
\* does not.
C9_KeywordPromptFilterIfLengthOk ==
    (Handled /\ (HasKeyword(payload_message) \/ payload_message = <<"null">>)) =>
        /\ LengthOk(payload_message) =>
              /\ message = <<PROMPT_FILTER>>
              /\ \A i \in 1..Len(completion_calls) :
                     completion_calls[i].message = <<PROMPT_FILTER>>
        /\ ~LengthOk(payload_message) => message = <<INVALID_INPUT>>

C9_Witness ==
    /\ payload_message = <<"IG", "<", "nore">>
    /\ Len(completion_calls) = 1
    /\ message = <<PROMPT_FILTER>>

\* C10: the corpus never holds two files whose display name starts with the
\* same hash, however often an upsert for the URL is delivered.
C10_AtMostOneDocPerHash ==
    \A i, j \in 1..Len(rag_files) :
        DisplayHash(rag_files[i]) = DisplayHash(rag_files[j]) => i = j


(* ------------------------------------------------- the ingestion claims *)
Range(seq) == {seq[i] : i \in 1..Len(seq)}

IsObject(t) == t.payload = "object"

\* the task carries a URL the consumer's allow-list admits
Allowed(t) ==
    /\ IsObject(t)
    /\ ~Falsy(t.url)
    /\ StartsWith(t.url, ALLOWED_URL_PREFIXES)

IsDelete(t) == IsObject(t) /\ ActionOf(t) = "delete"
IsUpsert(t) == IsObject(t) /\ ActionOf(t) = "upsert"

\* the corpus files whose display name starts with the hash of url
HashDocs(url) ==
    {i \in 1..Len(rag_files) : DisplayHash(rag_files[i]) = Sha256(url)}

BlobOf(url) == CreateSafeGcsBlobName(Sha256(url), url)

\* no finished callback had a Corpus Store list/delete call fail
NoFailedRagDelete == \A i \in 1..Len(log) : "rag_delete" \notin Range(log[i].faults)

WellFormed(q) ==
    /\ q.json = "object"
    /\ q.type \in DeleteTypes \cup UpsertTypes
    /\ FinalUrl(q) # Missing

\* the task carries a URL
CarriesUrl(t) == IsObject(t) /\ ~Falsy(t.url)

\* C12: with an empty allow-list the webhook handler publishes nothing and
\* never answers 202: a request that passes the payload checks is answered
\* 403 whatever its URL (the others 400); and the consumer nacks every task
\* that carries a URL and makes no Corpus Store or blob call.
C12_EmptyAllowListRejects ==
    ALLOWED_URL_PREFIXES = <<>> =>
        /\ published = <<>>
        /\ wh_response # 202
        /\ (wh_response # 0 /\ WellFormed(wh_request)) => wh_response = 403
        /\ ipc \in {"idle", "callback", "sleep"}
        /\ rag_files = <<>> /\ gcs_blobs = <<>> /\ next_file = 1
        /\ (ipc = "sleep" /\ CarriesUrl(delivery)) => ack_state = "nack"
        /\ \A i \in 1..Len(log) :
               CarriesUrl(log[i].task) =>
                   log[i].outcome = "nack" /\ log[i].faults = <<>>

C12_Witness ==
    /\ ALLOWED_URL_PREFIXES = <<>>
    /\ wh_request = WebRequest("content", PageUrl, Missing)
    /\ wh_response = 403
    /\ Len(log) = 2
    /\ log[1].task = Task(PageUrl, "upsert", "content")
    /\ log[1].outcome = "nack"
    /\ log[2].task = Task(PdfUrl, "delete", "absent")
    /\ log[2].outcome = "nack"

\* C13: every finished callback left its message either acked or nacked,
\* also for a payload that is not JSON or not a JSON object.
C13_EveryDeliveryAckedOrNacked ==
    \A i \in 1..Len(log) : log[i].outcome \in {"ack", "nack"}

IsMedia(t) == IsUpsert(t) /\ TypeOf(t) = "media"
IsContent(t) == IsUpsert(t) /\ TypeOf(t) # "media"

\* C14 as stated, for the three failures it names: a finished callback of a
\* task for an allowed URL in which an HTTP fetch, a blob upload or an import
\* failed ended in Nack.
C14_AnyExceptionNacks ==
    \A i \in 1..Len(log) :
        (Allowed(log[i].task)
           /\ Range(log[i].faults) \cap {"fetch", "upload", "import"} # {})
            => log[i].outcome = "nack"

\* C14 amended: an exception that reaches the callback's except clause (the
\* HTTP fetch of a media upsert, a blob upload, an import) ends in Nack; the
\* failures caught inside the store (page fetch or parse of a content upsert,
\* Corpus Store list/delete, blob delete) do not: a content upsert whose
\* fetch or parse failed is acked, and so is a task in which only a
\* list/delete or blob delete failed.
C14_PropagatedExceptionNacks ==
    \A i \in 1..Len(log) :
        Allowed(log[i].task) =>
            /\ (Range(log[i].faults) \cap {"upload", "import"} # {})
                   => log[i].outcome = "nack"
            /\ ("fetch" \in Range(log[i].faults) /\ IsMedia(log[i].task))
                   => log[i].outcome = "nack"
            /\ (Range(log[i].faults) \cap {"fetch", "parse_html"} # {}
                  /\ IsContent(log[i].task))
                   => log[i].outcome = "ack"
            /\ (log[i].faults # <<>>
                  /\ Range(log[i].faults) \subseteq {"rag_delete", "blob_delete"})
                   => log[i].outcome = "ack"

C14_Witness ==
    /\ Len(log) = 2
    /\ log[1] = [task |-> Task(PdfUrl, "upsert", "media"), outcome |-> "nack",
                 faults |-> <<"fetch">>]
    /\ log[2] = [task |-> Task(PageUrl, "upsert", "content"), outcome |-> "nack",
                 faults |-> <<"rag_delete", "import">>]

\* a corpus file of the URL that was there before this callback: for a delete
\* any file with the hash, for an upsert one older than the file it imported
StaleDoc ==
    \E i \in HashDocs(delivery.url) :
        IsDelete(delivery) \/ rag_files[i].name < next_file - 1

\* C15: when the callback has acked a delete or upsert task, a Corpus Store
\* list/delete call that failed in it has not left the stale file of the URL
\* in the corpus, and a blob delete that failed in it has not left the blob.
C15_AckOnlyAfterSideEffects ==
    (ipc = "sleep" /\ ack_state = "ack" /\ Allowed(delivery)) =>
        /\ "rag_delete" \in Range(faults) => ~StaleDoc
        /\ "blob_delete" \in Range(faults) => ~HasBlob(TaskBlob)

store == <<rag_files, gcs_blobs, next_file>>

\* a task with a URL that starts with none of the (non-empty) allowed prefixes
Disallowed(t) ==
    /\ CarriesUrl(t)
    /\ ALLOWED_URL_PREFIXES # <<>>
    /\ ~StartsWith(t.url, ALLOWED_URL_PREFIXES)

\* C17: with a non-empty allow-list, no step of the callback of a task whose
\* URL starts with no allowed prefix changes the corpus or the bucket, and
\* the callback leaves the task acked, whatever its action.
C17_DisallowedUrlDiscarded ==
    [][(ipc # "idle" /\ Disallowed(delivery)) =>
          /\ store' = store
          /\ ipc' \in {"sleep", "idle"}
          /\ ack_state' = "ack"]_vars

C17_Witness ==
    /\ ipc = "sleep"
    /\ delivery = Task(OtherUrl, "delete", "absent")
    /\ ack_state = "ack"
    /\ Len(rag_files) = 1
    /\ Len(gcs_blobs) = 1

\* a JSON object without a `url` key, or with an empty one
NoUrl(t) == IsObject(t) /\ (t.url = Missing \/ t.url = <<>>)

\* C18: no step of the callback of a task whose `url` is missing or empty
\* changes the corpus or the bucket, and the callback leaves the task acked,
\* with an empty allow-list as well as with a non-empty one.
C18_NoUrlDiscarded ==
    [][(ipc # "idle" /\ NoUrl(delivery)) =>
          /\ store' = store
          /\ ipc' \in {"sleep", "idle"}
          /\ ack_state' = "ack"]_vars

C18_Witness ==
    /\ ALLOWED_URL_PREFIXES = <<>>
    /\ ipc = "sleep"
    /\ delivery = Task(Missing, "delete", "absent")
    /\ ack_state = "ack"

\* C19: in the callback of a content upsert for an allowed URL, every step
\* taken while no text has been extracted leaves the corpus and the bucket
\* unchanged, and the scrape step that ends without text (fetch failed, parse
\* failed, or empty text) acks the task and ends the callback.
C19_FailedScrapeAcksAndKeepsStore ==
    [][(ipc # "idle" /\ IsContent(delivery) /\ Allowed(delivery)
          /\ content' = <<>>) =>
          /\ store' = store
          /\ ipc = "scrape" => (ack_state' = "ack" /\ ipc' = "sleep")]_vars

C19_Witness ==
    /\ ipc = "sleep"
    /\ delivery = Task(PageUrl, "upsert", "content")
    /\ faults = <<"fetch">>
    /\ ack_state = "ack"
    /\ content = <<>>
    /\ Len(rag_files) = 1
    /\ Len(gcs_blobs) = 1

\* the fetch of the task's URL failed in the callback that is ending
FetchFailed == ipc = "sleep" /\ IsUpsert(delivery) /\ "fetch" \in Range(faults)

\* C20: an upsert whose URL could not be fetched (request failed or non-2xx
\* status) is acked and so never retried, content and media alike.
C20_UnreachableUrlAcked == FetchFailed => ack_state = "ack"

(* ------------------------------------------------- claims C21 .. C30 *)
\* the second run is between its start and its return
PeerRunning == peer.pc \notin {"idle", "returned"}

\* C21: within one consumer process at most one callback is running at any
\* time: a callback on a thread of the process's executor and the callback of
\* another message are never both between their start and their return (ack or
\* nack and the pause included), so the store operations of two tasks of one
\* process never interleave.
C21_OneTaskAtATime == ~(ipc # "idle" /\ PeerRunning /\ peer.where = "thread")

\* a callback of the process ran on the executor to its end, and another one
\* is in the middle of its store operations
C21_Witness ==
    /\ peer.where = "thread"
    /\ peer.pc = "returned"
    /\ ipc \in {"delete_rag", "upload", "import"}

\* no call of either run, nor of any finished callback, has raised
NoFaultAnywhere ==
    /\ faults = <<>>
    /\ ~peer.fault
    /\ \A k \in 1..Len(log) : log[k].faults = <<>>

\* C22: when no call fails, the corpus holds at most one document per URL
\* hash in every state, however the list/delete/upload/import steps of two
\* runs handling deliveries for the same URL interleave.
C22_OverlapLeavesOneDoc ==
    NoFaultAnywhere =>
        \A i, j \in 1..Len(rag_files) :
            DisplayHash(rag_files[i]) = DisplayHash(rag_files[j]) => i = j

\* the handler has answered
Answered == wh_response # 0

\* the conditions the webhook accepts a request under, the publish aside:
\* recognised type, the URL field of that type, a non-empty allow-list and a
\* URL that starts with one of its prefixes
Acceptable(q) ==
    /\ WellFormed(q)
    /\ FinalUrl(q) # Null
    /\ ALLOWED_URL_PREFIXES # <<>>
    /\ StartsWith(FinalUrl(q), ALLOWED_URL_PREFIXES)

\* the payload is bad: no body, no object, no or an unknown type, or no URL
\* string in the field of its type
BadPayload(q) == ~WellFormed(q) \/ FinalUrl(q) = Null

\* C23: the webhook answers 202 exactly when it published one task, and it
\* does so only for an acceptable request; every other answer publishes
\* nothing and is 400 for a bad payload, 403 for an empty allow-list or an
\* unauthorized URL, and 500 only when publishing an acceptable request failed.
C23_WebhookOutcome ==
    Answered =>
        /\ wh_response \in {202, 400, 403, 500}
        /\ wh_response = 202 <=> Len(published) = 1
        /\ Len(published) <= 1
        /\ wh_response = 202 =>
               /\ Acceptable(wh_request)
               /\ published[1] = MessagePayload(WebAction(wh_request.type),
                                                FinalUrl(wh_request),
                                                wh_request.type)
        /\ ~Acceptable(wh_request) =>
               wh_response = IF BadPayload(wh_request) THEN 400 ELSE 403
        /\ wh_response = 500 => Acceptable(wh_request)

\* C24: every malformed payload is answered with a JSON error body and
\* status 400, never with an unhandled 5xx.
C24_MalformedGets400 ==
    (Answered /\ BadPayload(wh_request)) =>
        wh_response = 400 /\ wh_body = "json"

\* C25: a /conversation request whose message is missing or empty is
\* answered 400 and with nothing else: no stream is opened, no event is
\* produced, and neither the History Summarizer nor the Completion Service
\* nor a background thread is invoked.
C25_NoMessageGets400 ==
    NotMessage(payload_message) =>
        /\ response \in {"none", "400"}
        /\ pc \in {"request", "responded"}
        /\ pc = "responded" => response = "400"
        /\ events = <<>>
        /\ summary_calls = 0
        /\ completion_calls = <<>>
        /\ threads = <<>>

\* the request with a history and no message key was answered
C25_Witness ==
    /\ payload_message = NoMessage
    /\ Len(history) > 0
    /\ response = "400"

\* C26: when the message the generator checks at its start holds an HTML
\* tag, the stream is the fixed formatting refusal followed by done and
\* nothing else, and neither the Completion Service, the History Summarizer
\* nor a background thread is used, whether or not the message also holds
\* PII.
C26_HtmlStreamIsFormattingRefusal ==
    (response = "stream" /\ HasHtmlTag(message)) =>
        /\ completion_calls = <<>>
        /\ summary_calls = 0
        /\ threads = <<>>
        /\ result_queue = <<>>
        /\ events \in {<<>>, <<ErrorDelta(HTML_MSG)>>,
                       <<ErrorDelta(HTML_MSG), DoneEvent>>}
        /\ pc = "done" => events = <<ErrorDelta(HTML_MSG), DoneEvent>>

\* the stream of a message with a tag around an id, sent with a history, ended
C26_Witness ==
    /\ pc = "done"
    /\ HasHtmlTag(message)
    /\ pii_found
    /\ Len(history) > 0
    /\ events = <<ErrorDelta(HTML_MSG), DoneEvent>>

\* the item a step put on the result channel
Put == result_queue'[Len(result_queue')]

\* thread t ends in this step
Ends(t) == thread_state[t] = "running" /\ thread_state'[t] # "running"

\* the follow-up call failed, or its answer has no array under "questions"
NoQuestionList ==
    {"raise", "not_json", "not_object", "no_questions", "questions_not_list"}

\* C27: each background thread puts exactly one item on the result channel,
\* in the step it ends with, tagged with its own kind, and never runs again;
\* the contact thread puts the empty bundle when extraction raised, and the
\* follow-up thread puts the empty list when its call raised or its answer is
\* not JSON, not an object, or has no array under "questions".
C27_OneTaggedResultPerTask ==
    [][ /\ Len(result_queue') > Len(result_queue) =>
              /\ Len(result_queue') = Len(result_queue) + 1
              /\ Ends("contact") \/ Ends("follow_up")
        /\ Ends("contact") =>
              /\ Len(result_queue') = Len(result_queue) + 1
              /\ result_queue' = Append(result_queue, Put)
              /\ Put[1] = "contact_info"
              /\ found_contacts'.state = "raised" => Put[2] = empty_contacts
              /\ thread_state' = [thread_state EXCEPT !["contact"] = "posted"]
        /\ Ends("follow_up") =>
              /\ Len(result_queue') = Len(result_queue) + 1
              /\ result_queue' = Append(result_queue, Put)
              /\ Put[1] = "follow_up"
              /\ follow_up_reply' \in NoQuestionList => Put[2] = <<>>
              /\ thread_state' = [thread_state EXCEPT !["follow_up"] = "posted"]
        /\ \A t \in DOMAIN thread_state :
              thread_state[t] = "posted" => thread_state'[t] = "posted"
      ]_vars

\* extraction raised, the follow-up answer was not JSON, and both results,
\* empty, were relayed
C27_Witness ==
    /\ found_contacts.state = "raised"
    /\ follow_up_reply = "not_json"
    /\ pc = "done"
    /\ \E i \in 1..Len(events) :
           events[i].kind = "contact_info" /\ events[i].data = empty_contacts
    /\ \E i \in 1..Len(events) :
           events[i].kind = "follow_up" /\ events[i].data = <<>>

\* C28: every follow_up event placed on the stream carries exactly three
\* questions.
C28_FollowUpHasThreeQuestions ==
    \A i \in 1..Len(events) :
        events[i].kind = "follow_up" => Len(events[i].data) = 3

\* the contact thread posted a bundle built from an extracted bundle
Enriched ==
    /\ thread_state["contact"] = "posted"
    /\ found_contacts.state = "found"
    /\ AllContacts(found_contacts) # <<>>

\* the contact_info bundle the thread posted: on the queue, or relayed
PostedBundles ==
    {result_queue[i][2] : i \in {k \in 1..Len(result_queue) :
                                     result_queue[k][1] = "contact_info"}}
    \cup {events[i].data : i \in {k \in 1..Len(events) :
                                     events[k].kind = "contact_info"}}

\* str.title() of the local part: the first letter of each word upper case
TitleCasedLocalPart(email) == Title(LocalPart(email))

\* the items of a kind pair the extracted contacts, in order, with a title:
\* the mapping's when it has the contact, else the fallback
TitledAs(items, contacts, fallback(_)) ==
    /\ Len(items) = Len(contacts)
    /\ \A i \in 1..Len(items) :
           /\ items[i].contact = Sorted(Elems(contacts))[i]
           /\ items[i].title =
                  IF items[i].contact \in DOMAIN title_map
                  THEN title_map[items[i].contact]
                  ELSE fallback(items[i].contact)

SpecEmailTitle(email) == <<"Email ">> \o TitleCasedLocalPart(email)
CodeEmailTitle(email) == <<"Email ">> \o Title(ReplaceDots(LocalPart(email)))
PhoneTitle(phone) == <<"Call ">> \o phone
UrlTitle(url) == <<"Visit Link">>

\* C29 as stated: the posted bundle has the cardinality of the extracted
\* bundle, and every item carries the mapping's title or else the fallback
\* "Call {phone}", "Email {title-cased local part}", "Visit Link".
C29_TitledBundleWithFallbacks ==
    Enriched =>
        \A b \in PostedBundles :
            /\ TitledAs(b.urls, found_contacts.urls, UrlTitle)
            /\ TitledAs(b.emails, found_contacts.emails, SpecEmailTitle)
            /\ TitledAs(b.phones, found_contacts.phones, PhoneTitle)

\* C29, amended: as above, with the email fallback "Email " followed by the
\* local part with each "." replaced by a space and then title-cased.
C29_TitledBundleWithCodeFallbacks ==
    Enriched =>
        \A b \in PostedBundles :
            /\ TitledAs(b.urls, found_contacts.urls, UrlTitle)
            /\ TitledAs(b.emails, found_contacts.emails, CodeEmailTitle)
            /\ TitledAs(b.phones, found_contacts.phones, PhoneTitle)

\* a bundle of two emails and a URL was posted with the mapping titling one
\* contact only
C29_Witness ==
    /\ Enriched
    /\ Len(found_contacts.emails) = 2
    /\ Len(found_contacts.urls) = 1
    /\ Cardinality(DOMAIN title_map) = 1
    /\ PostedBundles # {}

\* the last completion call of Title Enrichment failed
LastTitleCallFailed ==
    title_calls # <<>> /\ title_calls[Len(title_calls)] # "ok"

\* C30: Title Enrichment calls the Completion Service at most 3 times; a call
\* is followed by another only when it failed with resource exhaustion, and
\* then always while fewer than 3 were made; when the last call failed the
\* mapping is empty and the thread still posts the bundle, every contact
\* with its fallback title.
C30_TitleRetriesBounded ==
    thread_state["contact"] = "posted" =>
        /\ Len(title_calls) <= 3
        /\ \A i \in 1..(Len(title_calls) - 1) :
               title_calls[i] = "ResourceExhausted"
        /\ (title_calls # <<>> /\ Len(title_calls) < 3) =>
               title_calls[Len(title_calls)] # "ResourceExhausted"
        /\ LastTitleCallFailed =>
               /\ title_map = <<>>
               /\ found_contacts.state = "found"
               /\ \A b \in PostedBundles :
                      /\ TitledAs(b.urls, found_contacts.urls, UrlTitle)
                      /\ TitledAs(b.emails, found_contacts.emails, CodeEmailTitle)
                      /\ TitledAs(b.phones, found_contacts.phones, PhoneTitle)
                      /\ Len(b.urls) + Len(b.emails) + Len(b.phones) > 0

\* three calls ran out of quota and the bundle was relayed with the fallback
\* title of the phone number
C30_Witness ==
    /\ title_calls = <<"ResourceExhausted", "ResourceExhausted", "ResourceExhausted">>
    /\ pc = "done"
    /\ \E i \in 1..Len(events) :
           /\ events[i].kind = "contact_info"
           /\ Len(events[i].data.phones) = 1
           /\ events[i].data.phones[1].title = <<"Call ">> \o Phone1

(* ------------------------------------------------- claims C31 .. C40 *)
\* the place of a contact in lexicographic order
Rank(c) == CHOOSE i \in 1..Len(Ordered) : Ordered[i] = c

\* at most n entries, each one a match of some text, without repetition and
\* in lexicographic order
SortedMatches(list, kind, n) ==
    /\ Len(list) <= n
    /\ \E t \in TextContacts : Elems(list) \subseteq t[kind]
    /\ \A i, j \in 1..Len(list) : i < j => Rank(list[i]) < Rank(list[j])

\* the URLs the regex can find in a text
RegexUrls == UNION {t.urls : t \in TextContacts}

\* C31: in the extracted bundle, with a non-empty source list the URLs are
\* its first 3 entries, in its order, and none is a regex match; without one
\* they are at most 4 regex matches; emails and phones are at most 4 regex
\* matches each, without repetition and in lexicographic order.
C31_ExtractedBundleCaps ==
    found_contacts.state = "found" =>
        /\ source_urls # <<>> =>
               /\ Len(found_contacts.urls) = (IF Len(source_urls) < 3
                                              THEN Len(source_urls) ELSE 3)
               /\ \A i \in 1..Len(found_contacts.urls) :
                      found_contacts.urls[i] = <<source_urls[i]>>
               /\ Elems(found_contacts.urls) \cap RegexUrls = {}
        /\ source_urls = <<>> => SortedMatches(found_contacts.urls, "urls", 4)
        /\ SortedMatches(found_contacts.emails, "emails", 4)
        /\ SortedMatches(found_contacts.phones, "phones", 4)

\* a text with five emails came with a list of four sources
C31_Witness ==
    /\ Len(source_urls) = 4
    /\ found_contacts.state = "found"
    /\ Len(found_contacts.urls) = 3
    /\ Len(found_contacts.emails) = 4
    /\ found_contacts.emails[4] = <<"d", "@", "nation.example">>

\* the message triggers none of the checks: length, alphanumeric, keyword,
\* PII, HTML
TriggersNoCheck(m) ==
    /\ ~NotMessage(m)
    /\ Rewrite(m) = m
    /\ ~detect_and_mask_pii(m)[1]
    /\ ~HasHtmlTag(m)

\* the stream of such a message with the Completion Service reached: it got
\* the message as sent; with an empty history the summarizer was not
\* called and the Completion Service got the empty history; Done is last
ReachedUnmodified ==
    /\ Len(completion_calls) = 1
    /\ completion_calls[1].message = payload_message
    /\ Len(history) = 0 =>
           /\ summary_calls = 0
           /\ completion_calls[1].history = <<>>
    /\ events # <<>>
    /\ events[Len(events)] = DoneEvent

\* C32: a finished stream of a message that triggers none of the checks has
\* reached the Completion Service with the message unmodified; with an
\* empty history the History Summarizer was not called and the Completion
\* Service received the empty history; the stream ends with Done.
C32_PlainMessageReachesCompletion ==
    (pc = "done" /\ TriggersNoCheck(payload_message)) => ReachedUnmodified

\* the same, for the streams in which the History Summarizer did not raise
C32_UnlessSummarizerRaised ==
    (/\ pc = "done"
     /\ TriggersNoCheck(payload_message)
     /\ (raised = <<>> \/ raised[1] # "summarize")) => ReachedUnmodified

\* a plain message with an empty history got its whole stream
C32_Witness ==
    /\ pc = "done"
    /\ TriggersNoCheck(payload_message)
    /\ Len(history) = 0
    /\ ReachedUnmodified
    /\ raised = <<>>

\* the documents and the blobs labelled with hash h, in the corpus `files`
\* and the bucket `blobs`
Labelled(files, blobs, h) ==
    <<SelectSeq(files, LAMBDA f : DisplayHash(f) = h),
      SelectSeq(blobs, LAMBDA b : b.name.hash = h)>>

\* the URL of the task the callback is handling, when it has one
TaskUrls == IF delivery.payload = "object" THEN {delivery.url} ELSE {}

\* C33: no step of the callback for a task with URL u deletes, replaces or
\* creates a document or a blob whose hash label is not sha256(u).
C33_OnlyOwnHashTouched ==
    [][\A u \in {PageUrl, PdfUrl, OtherUrl} :
           u \notin TaskUrls =>
               Labelled(rag_files', gcs_blobs', Sha256(u))
                   = Labelled(rag_files, gcs_blobs, Sha256(u))]_vars

\* the task for the page ran its delete step and its import while the
\* document and the blob of the PDF were there, and they still are
C33_Witness ==
    /\ delivery = Task(PageUrl, "upsert", "content")
    /\ ack_state = "ack"
    /\ faults = <<>>
    /\ Len(Labelled(rag_files, gcs_blobs, Sha256(PdfUrl))[1]) = 1
    /\ Len(Labelled(rag_files, gcs_blobs, Sha256(PdfUrl))[2]) = 1
    /\ Len(Labelled(rag_files, gcs_blobs, Sha256(PageUrl))[1]) = 1

\* the callback is handling an upsert task
UpsertRunning ==
    /\ ipc # "idle"
    /\ delivery.payload = "object"
    /\ ActionOf(delivery) = "upsert"

\* the fetch or the extraction of this callback failed: a call raised, or
\* nothing came out of it
NothingFetched(got, raised_calls) ==
    \/ got = <<>>
    \/ \E i \in 1..Len(raised_calls) : raised_calls[i] \in {"fetch", "parse_html"}

\* C34: a step of an upsert task changes the corpus or the bucket only once
\* the new content has been fetched and (for a page) extracted to non-empty
\* text; a step after which the fetch or the extraction has failed leaves
\* both as they were, so the previous document is still there.
C34_DeleteOnlyAfterFetch ==
    [][UpsertRunning =>
           /\ <<rag_files', gcs_blobs'>> # <<rag_files, gcs_blobs>> =>
                  ~NothingFetched(content, faults)
           /\ NothingFetched(content', faults') =>
                  <<rag_files', gcs_blobs'>> = <<rag_files, gcs_blobs>>]_vars

\* the page had a document, and the second upsert of it failed to fetch: the
\* callback is over and the document is there
C34_Witness ==
    /\ delivery = Task(PageUrl, "upsert", "content")
    /\ ipc = "sleep"
    /\ NothingFetched(content, faults)
    /\ Len(log) = 1
    /\ log[1].outcome = "ack"
    /\ Len(rag_files) = 1
    /\ DisplayHash(rag_files[1]) = Sha256(PageUrl)

\* C36: a task with an allowed URL and an action that is neither delete nor
\* upsert is acked and its callback makes no corpus or bucket operation: it
\* goes from the dispatch straight to the ack, and no step of it changes the
\* corpus or the bucket; a task with no action field and no type field goes
\* the way of a content upsert, to the scrape.
C36_UnknownActionAckedAbsentIsUpsert ==
    [][(/\ ipc = "callback"
        /\ delivery.payload = "object"
        /\ ~Falsy(delivery.url)
        /\ StartsWith(delivery.url, ALLOWED_URL_PREFIXES)) =>
           /\ delivery.action \notin {"delete", "upsert", "absent"} =>
                  /\ ipc' = "sleep"
                  /\ ack_state' = "ack"
                  /\ faults' = <<>>
                  /\ <<rag_files', gcs_blobs'>> = <<rag_files, gcs_blobs>>
           /\ delivery.action = "absent" =>
                  ipc' = (IF delivery.type = "media" THEN "fetch_media"
                          ELSE "scrape")]_vars

\* a task with an unknown action was acked, and the document and the blob
\* that were there are untouched
C36_Witness ==
    /\ delivery = Task(PageUrl, "purge", "absent")
    /\ ipc = "sleep"
    /\ ack_state = "ack"
    /\ Len(rag_files) = 1
    /\ Len(gcs_blobs) = 1

\* the documents in the corpus for the URL of the task being handled
DocsForTask ==
    Len(SelectSeq(rag_files, LAMBDA f : DisplayHash(f) = Sha256(delivery.url)))

\* a Corpus Store list/delete call has failed in some callback
DeleteFailedOnce ==
    \/ \E k \in 1..Len(faults) : faults[k] = "rag_delete"
    \/ \E i \in 1..Len(log) :
           \E k \in 1..Len(log[i].faults) : log[i].faults[k] = "rag_delete"

\* C35: with nacked tasks delivered again and the upload and the import
\* failing finitely often, an upsert of an allowed URL that can be fetched
\* is eventually acked; when it is acked the corpus holds exactly one
\* document for the URL's hash, and after a nack it holds none or one.
C35_UpsertEventuallyAckedWithOneDoc ==
    /\ (ipc = "callback") ~> (ack_state = "ack")
    /\ [](ack_state = "ack" => DocsForTask = 1)
    /\ [](ack_state = "nack" => DocsForTask <= 1)

\* the same, for the runs in which no Corpus Store list/delete call failed
C35_UnlessDeleteFailed ==
    /\ (ipc = "callback") ~> (ack_state = "ack")
    /\ [](ack_state = "ack" => DocsForTask = 1 \/ DeleteFailedOnce)
    /\ [](ack_state = "nack" => DocsForTask <= 1 \/ DeleteFailedOnce)

\* the upsert was nacked MaxFailures times and then acked, with one document
C35_Witness ==
    /\ ack_state = "ack"
    /\ FailedCalls = MaxFailures
    /\ DocsForTask = 1
    /\ ~DeleteFailedOnce

\* the places of the events of one kind in the stream
EventsOf(kind) == {i \in 1..Len(events) : events[i].kind = kind}

\* a short-circuit fired, or an exception was raised before the collection
\* loop
NoBackgroundDue ==
    /\ response = "stream"
    /\ \/ HasHtmlTag(message)
       \/ pii_found
       \/ raised # <<>> /\ raised[1] # "relay"

\* C38: a stream holds at most one contact_info event and at most one
\* follow_up event, and none of either when the HTML or the PII
\* short-circuit fired or an exception was raised before the background
\* tasks were collected.
C38_AtMostOneOfEachBackgroundEvent ==
    /\ Cardinality(EventsOf("contact_info")) <= 1
    /\ Cardinality(EventsOf("follow_up")) <= 1
    /\ NoBackgroundDue => EventsOf("contact_info") \cup EventsOf("follow_up") = {}

\* a finished stream with both events, the follow_up one first
C38_Witness ==
    /\ pc = "done"
    /\ \E i \in EventsOf("follow_up") : \E j \in EventsOf("contact_info") : i < j

\* C39: the message handed to the Completion Service holds no match of a
\* PII pattern: it is a sentinel, or a message on which the PII check found
\* nothing; it is the masked message, which the follow-up input starts with.
C39_NoPiiReachesCompletion ==
    /\ \A i \in 1..Len(completion_calls) :
           /\ ~PiiSearch(completion_calls[i].message)
           /\ \/ completion_calls[i].message \in {<<INVALID_INPUT>>, <<PROMPT_FILTER>>}
              \/ /\ completion_calls[i].message = payload_message
                 /\ ~detect_and_mask_pii(payload_message)[1]
           /\ masked_message = completion_calls[i].message

\* a message with a six-digit id in it was sent, and what reached the
\* Completion Service is the sentinel of the length check
C39_Witness ==
    /\ PiiSearch(payload_message)
    /\ Len(completion_calls) = 1
    /\ completion_calls[1].message = <<INVALID_INPUT>>

\* the crawl has ended
CrawlOver == crawl.pc \in {"returned", "finished"}

\* C40: crawl_domain hands each URL to process_url at most once, enqueues
\* only URLs of the start URL's network location, processes them in the
\* order they were enqueued, and ends, whatever process_url returns.
C40_CrawlVisitsOnceInOrderAndEnds ==
    /\ [](\A i, j \in 1..Len(crawl.processed) :
              crawl.processed[i].url = crawl.processed[j].url => i = j)
    /\ [](\A i \in 1..Len(crawl.enqueued) :
              crawl.enqueued[i][1] = crawl.start_url[1])
    /\ [](/\ Len(crawl.processed) <= Len(crawl.enqueued)
          /\ \A i \in 1..Len(crawl.processed) :
                 crawl.processed[i].url = crawl.enqueued[i]
          /\ crawl.urls_to_visit =
                 SubSeq(crawl.enqueued, Len(crawl.processed) + 1,
                        Len(crawl.enqueued)))
    /\ <>CrawlOver

\* a crawl from a start URL with a query ended after four URLs, one of
\* which could not be processed: the start URL, /b, /a, and the start page
\* again under its URL without the query
C40_Witness ==
    /\ crawl.pc = "finished"
    /\ Len(crawl.processed) = 4
    /\ \E i \in 1..4 : crawl.processed[i].outcome = "failed"
    /\ crawl.processed[2].url = <<"nation.example", "/b", "">>
    /\ crawl.processed[3].url = <<"nation.example", "/a", "">>
    /\ crawl.start_url[3] # ""

\* a result of the other request's tasks
FromOther(kind, data) ==
    \/ kind = "contact_info" /\ data = OtherResults["contact"][2]
    \/ kind = "follow_up" /\ data = OtherResults["follow_up"][2]

\* C37: with two requests streamed at the same time, a contact_info or
\* follow_up event on a stream is a result of that request's own tasks: the
\* first stream carries no result of the other request's tasks, and the
\* other stream carries only results of its own, also for a result put
\* after its request stopped reading.
C37_StreamsCarryOnlyOwnResults ==
    /\ \A i \in 1..Len(events) : ~FromOther(events[i].kind, events[i].data)
    /\ \A i \in 1..Len(result_queue) :
           ~FromOther(result_queue[i][1], result_queue[i][2])
    /\ \A i \in 1..Len(other.events) :
           FromOther(other.events[i][1], other.events[i][2])

\* both streams are over; the first carried its two results; the other
\* carried one of its own, timed out on the second, and that one was put
\* afterwards and stays in the other request's queue
C37_Witness ==
    /\ pc = "done"
    /\ Cardinality({i \in 1..Len(events) :
                       events[i].kind \in {"contact_info", "follow_up"}}) = 2
    /\ other.pc = "done"
    /\ Len(other.events) = 1
    /\ Len(other.result_queue) = 1
    /\ other.posted = {"contact", "follow_up"}

====
